---- MODULE Spec2Model ----
(***************************************************************************)
(* Tenant isolation and plan-gated authorization of the SaaS back end:     *)
(* the Express pipeline of server/src (authenticateToken,                  *)
(* tenantMiddleware, checkAccountAccess, checkAccountLimits, the route     *)
(* handlers and createAuditLog), the auth routes (login, register,         *)
(* refresh, logout) and the admin routes, over the Prisma store.           *)
(*                                                                         *)
(* Time is counted in days: the access token lives 24h = 1 day, the        *)
(* refresh token 30 days.  A request is served in steps, one per           *)
(* middleware of its route (each awaits the store once), so that           *)
(* administrative writes interleave with a request in flight.              *)
(***************************************************************************)
EXTENDS Integers, Sequences, FiniteSets, TLC

VARIABLES
  now,        \* the clock (new Date()), in days
  tenant,     \* table tenants:  id -> row
  user,       \* table users:    id -> row (NoRow when the id is unused)
  client,     \* table clients:  set of rows
  project,    \* table projects: set of rows
  task,       \* table tasks:    set of rows
  file,       \* table files:    set of rows
  auditLog,   \* table audit_logs, in order of creation
  wallet,     \* the tokens each browser session holds (localStorage)
  req,        \* the protected requests in flight, one per slot
  authRes,    \* the response in flight of an /api/auth or /api/admin call
  probe       \* the input and output of a middleware called on its own

vars == <<now, tenant, user, client, project, task, file, auditLog, wallet,
          req, authRes, probe>>

store == <<tenant, user, client, project, task, file, auditLog>>

----------------------------------------------------------------------------
(* Bounds of the model *)

MaxNow == 1

MaxAudit == 2

MaxRows == 1

(* requests that are in flight at the same time where they race *)
MaxInFlight == 2

(* Program constants *)

AccessTTL == 1

RefreshTTL == 30

----------------------------------------------------------------------------
(* Values *)

None == "none"

NoRow == [exists |-> FALSE]

Tenants == {"t1", "t2"}

AccountTypes == <<"SIMPLE", "COMPOSITE", "MANAGERIAL">>

AccountTypeSet == {AccountTypes[i] : i \in 1..Len(AccountTypes)}

Includes(seq, x) == \E i \in 1..Len(seq) : seq[i] = x

ACCOUNT_MODULES ==
  [SIMPLE     |-> <<"crm", "clients", "projects", "tasks", "billing",
                    "basic_settings">>,
   COMPOSITE  |-> <<"crm", "clients", "projects", "tasks", "billing",
                    "cash_flow", "transactions", "dashboard",
                    "basic_settings">>,
   MANAGERIAL |-> <<"crm", "clients", "projects", "tasks", "billing",
                    "cash_flow", "transactions", "dashboard",
                    "user_management", "advanced_settings", "audit_logs">>]

(* Sizes are counted in MiB (the source counts bytes: 1024 * 1024 * 100 is  *)
(* 100 MiB), so that 5 GiB stays within the model checker's integers.       *)
ACCOUNT_LIMITS ==
  [SIMPLE     |-> [maxClients |-> 50,  maxProjects |-> 25,
                   maxStorage |-> 100],
   COMPOSITE  |-> [maxClients |-> 200, maxProjects |-> 100,
                   maxStorage |-> 500],
   MANAGERIAL |-> [maxClients |-> -1,  maxProjects |-> -1,
                   maxStorage |-> 1024 * 5]]

ResourceTypes == {"clients", "projects", "storage"}

----------------------------------------------------------------------------
(* Responses.  A response is [status, body]; the body is the JSON object   *)
(* the code sends, field for field.  A message built from a template is    *)
(* kept as the sequence of its parts.                                      *)

NoRes == [status |-> 0, body |-> [code |-> None]]

Next_ == [next |-> TRUE, res |-> NoRes]

Respond(status, body) == [next |-> FALSE, res |-> [status |-> status, body |-> body]]

(* next(new AppError(message, statusCode)) as errorHandler answers it *)
errorHandler(message, statusCode) ==
  Respond(statusCode, [status |-> "error", message |-> message, code |-> "AppError"])

(* errorHandler for PrismaClientKnownRequestError P2025: an update or a     *)
(* delete of a row that does not exist                                      *)
errorHandler404 ==
  Respond(404, [status |-> "error", message |-> <<"Registro nao encontrado">>])

(* the catch-all of errorHandler for an error that is no AppError *)
errorHandler500 ==
  Respond(500, [status |-> "error", message |-> <<"Erro interno do servidor">>])

----------------------------------------------------------------------------
(* middleware/planAccess: the Capability Gate and the quota check *)

RECURSIVE SuggestedFrom(_, _)
SuggestedFrom(i, requiredModule) ==
  IF i > Len(AccountTypes) THEN <<>>
  ELSE (IF Includes(ACCOUNT_MODULES[AccountTypes[i]], requiredModule)
        THEN <<AccountTypes[i]>> ELSE <<>>)
       \o SuggestedFrom(i + 1, requiredModule)

(* the suggestions collected by a scan of the table from its last entry *)
RECURSIVE SuggestedDownFrom(_, _)
SuggestedDownFrom(i, requiredModule) ==
  IF i < 1 THEN <<>>
  ELSE (IF Includes(ACCOUNT_MODULES[AccountTypes[i]], requiredModule)
        THEN <<AccountTypes[i]>> ELSE <<>>)
       \o SuggestedDownFrom(i - 1, requiredModule)

getSuggestedAccountsReversed(requiredModule) ==
  SuggestedDownFrom(Len(AccountTypes), requiredModule)

getSuggestedAccounts(requiredModule) == SuggestedFrom(1, requiredModule)

accountLevels == [SIMPLE |-> 1, COMPOSITE |-> 2, MANAGERIAL |-> 3]

RECURSIVE SuggestedAbove(_, _)
SuggestedAbove(i, currentLevel) ==
  IF i > Len(AccountTypes) THEN <<>>
  ELSE (IF accountLevels[AccountTypes[i]] > currentLevel
        THEN <<AccountTypes[i]>> ELSE <<>>)
       \o SuggestedAbove(i + 1, currentLevel)

getSuggestedAccountsForLimit(resourceType, currentAccount) ==
  SuggestedAbove(1, accountLevels[currentAccount])

(* the names every object literal inherits from Object.prototype: a lookup  *)
(* table[name] with one of them yields the inherited member (a function,    *)
(* or the prototype itself), not undefined                                  *)
ObjectPrototypeNames ==
  {"constructor", "toString", "valueOf", "hasOwnProperty", "__proto__"}

InternalError ==
  Respond(500, [error |-> <<"Erro interno do servidor">>, code |-> "INTERNAL_ERROR"])

(* a gate that takes the tiers as levels: a tier is allowed what its own     *)
(* entry or the entry of a lower tier lists                                 *)
checkAccountAccessByLevel(reqUser, requiredModule) ==
  IF reqUser = <<>>
  THEN Respond(401, [error |-> <<"Usuario nao autenticado">>,
                     code |-> "USER_NOT_AUTHENTICATED"])
  ELSE LET accountType == reqUser[1].accountType IN
       IF \E a \in DOMAIN ACCOUNT_MODULES :
            /\ accountLevels[a] <= accountLevels[accountType]
            /\ Includes(ACCOUNT_MODULES[a], requiredModule)
       THEN Next_
       ELSE Respond(403, [error |-> <<"Acesso negado. Sua conta ", accountType,
                                      " nao inclui o modulo ", requiredModule>>,
                          code |-> "ACCOUNT_ACCESS_DENIED",
                          currentAccount |-> accountType,
                          requiredModule |-> requiredModule,
                          allowedModules |-> ACCOUNT_MODULES[accountType],
                          suggestedAccounts |-> getSuggestedAccounts(requiredModule)])

(* reqUser is req.user as a sequence: <<>> when unset, <<claims>> when set *)
checkAccountAccess(reqUser, requiredModule) ==
  IF reqUser = <<>>
  THEN Respond(401, [error |-> <<"Usuario nao autenticado">>,
                     code |-> "USER_NOT_AUTHENTICATED"])
  ELSE LET accountType == reqUser[1].accountType IN
       IF accountType \notin DOMAIN ACCOUNT_MODULES
       THEN InternalError   \* allowedModules is undefined, or an inherited member
                            \* with no includes: the call throws, caught
       ELSE LET allowedModules == ACCOUNT_MODULES[accountType] IN
            IF ~Includes(allowedModules, requiredModule)
            THEN Respond(403, [error |-> <<"Acesso negado. Sua conta ", accountType,
                                           " nao inclui o modulo ", requiredModule>>,
                               code |-> "ACCOUNT_ACCESS_DENIED",
                               currentAccount |-> accountType,
                               requiredModule |-> requiredModule,
                               allowedModules |-> allowedModules,
                               suggestedAccounts |-> getSuggestedAccounts(requiredModule)])
            ELSE Next_

RECURSIVE SumSizes(_)
SumSizes(files) ==
  IF files = {} THEN 0
  ELSE LET f == CHOOSE x \in files : TRUE IN f.size + SumSizes(files \ {f})

CountWhere(rows, tenantId) == Cardinality({r \in rows : r.tenantId = tenantId})

(* the comparison as it would be if the limit itself were still allowed *)
LimitExceededStrictly(maxAllowed, currentCount) ==
  maxAllowed # -1 /\ currentCount > maxAllowed

LimitExceeded(maxAllowed, currentCount) == maxAllowed # -1 /\ currentCount >= maxAllowed

(* clients, projects, files: the tables the middleware counts *)
checkAccountLimits(reqUser, resourceType, clients, projects, files) ==
  IF reqUser = <<>> \/ reqUser[1].tenantId = "" \/ reqUser[1].accountType = ""
  THEN Respond(401, [error |-> <<"Informacoes de autenticacao invalidas">>,
                     code |-> "INVALID_AUTH"])
  ELSE LET tenantId == reqUser[1].tenantId
           accountType == reqUser[1].accountType
       IN
       IF accountType \in ObjectPrototypeNames
       THEN Next_           \* limits is an inherited member: limits.maxClients is
                            \* undefined, and currentCount >= undefined is false
       ELSE IF accountType \notin DOMAIN ACCOUNT_LIMITS
       THEN InternalError   \* limits is undefined: limits.maxClients throws, caught
       ELSE LET limits == ACCOUNT_LIMITS[accountType]
                currentCount ==
                  CASE resourceType = "clients"  -> CountWhere(clients, tenantId)
                    [] resourceType = "projects" -> CountWhere(projects, tenantId)
                    [] resourceType = "storage"  ->
                         SumSizes({f \in files : f.tenantId = tenantId})
                maxAllowed ==
                  CASE resourceType = "clients"  -> limits.maxClients
                    [] resourceType = "projects" -> limits.maxProjects
                    [] resourceType = "storage"  -> limits.maxStorage
            IN
            IF LimitExceeded(maxAllowed, currentCount)
            THEN Respond(403, [error |-> <<"Limite da conta atingido para ", resourceType>>,
                               code |-> "ACCOUNT_LIMIT_EXCEEDED",
                               currentAccount |-> accountType,
                               resourceType |-> resourceType,
                               currentCount |-> currentCount,
                               maxAllowed |-> maxAllowed,
                               suggestedAccounts |->
                                 getSuggestedAccountsForLimit(resourceType, accountType)])
            ELSE Next_

----------------------------------------------------------------------------
(* jsonwebtoken.  A token is its payload, the secret it was signed with    *)
(* and its expiry; an access token carries no type claim, a refresh token  *)
(* no accountType.                                                         *)

JWT_SECRET == "JWT_SECRET"

JWT_REFRESH_SECRET == "JWT_REFRESH_SECRET"

SignAccess(u, row, t) ==
  [sig |-> JWT_SECRET, userId |-> u, tenantId |-> row.tenantId,
   accountType |-> row.accountType, type |-> None, exp |-> t + AccessTTL]

SignRefresh(u, row, t) ==
  [sig |-> JWT_REFRESH_SECRET, userId |-> u, tenantId |-> row.tenantId,
   accountType |-> None, type |-> "refresh", exp |-> t + RefreshTTL]

(* a verification that reads the payload and its expiry and does not check  *)
(* the signature (jwt.decode)                                               *)
JwtVerifyUnsigned(token, secret, t) ==
  IF t >= token.exp THEN "TokenExpiredError" ELSE "ok"

(* jwt.verify: the signature is checked first, then the expiry *)
JwtVerify(token, secret, t) ==
  IF token.sig # secret THEN "JsonWebTokenError"
  ELSE IF t >= token.exp THEN "TokenExpiredError"
  ELSE "ok"

----------------------------------------------------------------------------
(* middleware/auth and middleware/tenant *)

(* the comparison of the date with the clock turned around *)
IsExpiredReversed(row, t) == \E d \in row.expiresAt : d > t

IsExpired(row, t) == \E d \in row.expiresAt : d < t

(* authenticateToken as it would be if it trusted the token for the state   *)
(* of the tenant: the principal is looked up, its tenant is not             *)
authenticateTokenTrustingToken(bearer, users, tenants, t) ==
  IF bearer = <<>>
  THEN [user |-> <<>>] @@ errorHandler(<<"Token de autenticacao nao fornecido">>, 401)
  ELSE LET decoded == bearer[1] IN
       IF JwtVerify(decoded, JWT_SECRET, t) # "ok"
       THEN [user |-> <<>>] @@ errorHandler(<<"Token invalido">>, 401)
       ELSE IF decoded.userId \notin DOMAIN users \/ ~users[decoded.userId].exists
                 \/ ~users[decoded.userId].isActive
       THEN [user |-> <<>>] @@ errorHandler(<<"Usuario nao encontrado ou inativo">>, 401)
       ELSE [user |-> <<[userId |-> decoded.userId,
                         tenantId |-> users[decoded.userId].tenantId,
                         accountType |-> users[decoded.userId].accountType]>>] @@ Next_

(* authenticateToken as it would be if it did not look at the active flag   *)
(* of the principal it reads                                                *)
authenticateTokenOfAnyPrincipal(bearer, users, tenants, t) ==
  IF bearer = <<>>
  THEN [user |-> <<>>] @@ errorHandler(<<"Token de autenticacao nao fornecido">>, 401)
  ELSE LET decoded == bearer[1] IN
       IF JwtVerify(decoded, JWT_SECRET, t) # "ok"
       THEN [user |-> <<>>] @@ errorHandler(<<"Token invalido">>, 401)
       ELSE IF decoded.userId \notin DOMAIN users \/ ~users[decoded.userId].exists
       THEN [user |-> <<>>] @@ errorHandler(<<"Usuario nao encontrado ou inativo">>, 401)
       ELSE LET u == users[decoded.userId] IN
            IF ~tenants[u.tenantId].isActive
            THEN [user |-> <<>>] @@ errorHandler(<<"Empresa inativa">>, 403)
            ELSE IF IsExpired(tenants[u.tenantId], t)
            THEN [user |-> <<>>] @@ errorHandler(<<"Plano da empresa expirou">>, 403)
            ELSE [user |-> <<[userId |-> decoded.userId, tenantId |-> u.tenantId,
                              accountType |-> u.accountType]>>] @@ Next_

(* bearer: <<>> when the header carries no token, <<token>> otherwise;      *)
(* users, tenants: the tables as read by the one query; t: new Date()      *)
authenticateToken(bearer, users, tenants, t) ==
  IF bearer = <<>>
  THEN [user |-> <<>>] @@ errorHandler(<<"Token de autenticacao nao fornecido">>, 401)
  ELSE LET decoded == bearer[1]
           v == JwtVerify(decoded, JWT_SECRET, t)
       IN
       IF v # "ok"
       THEN \* TokenExpiredError is a JsonWebTokenError: the first branch takes both
            [user |-> <<>>] @@ errorHandler(<<"Token invalido">>, 401)
       ELSE IF decoded.userId \notin DOMAIN users \/ ~users[decoded.userId].exists
                 \/ ~users[decoded.userId].isActive
       THEN [user |-> <<>>] @@ errorHandler(<<"Usuario nao encontrado ou inativo">>, 401)
       ELSE LET u == users[decoded.userId] IN
            IF ~tenants[u.tenantId].isActive
            THEN [user |-> <<>>] @@ errorHandler(<<"Empresa inativa">>, 403)
            ELSE IF IsExpired(tenants[u.tenantId], t)
            THEN [user |-> <<>>] @@ errorHandler(<<"Plano da empresa expirou">>, 403)
            ELSE [user |-> <<[userId |-> decoded.userId, tenantId |-> u.tenantId,
                              accountType |-> u.accountType]>>] @@ Next_

(* a tenant stage that loads the tenant and does not look at its state *)
tenantMiddlewareLoadOnly(reqUser, tenants, t) ==
  IF reqUser = <<>>
  THEN errorHandler(<<"Tenant ID nao encontrado">>, 401)
  ELSE LET tenantId == reqUser[1].tenantId IN
       IF tenantId \notin DOMAIN tenants \/ ~tenants[tenantId].exists
       THEN errorHandler(<<"Empresa nao encontrada">>, 404)
       ELSE Next_

tenantMiddleware(reqUser, tenants, t) ==
  IF reqUser = <<>>
  THEN errorHandler(<<"Tenant ID nao encontrado">>, 401)
  ELSE LET tenantId == reqUser[1].tenantId IN
       IF tenantId \notin DOMAIN tenants \/ ~tenants[tenantId].exists
       THEN errorHandler(<<"Empresa nao encontrada">>, 404)
       ELSE IF ~tenants[tenantId].isActive
       THEN errorHandler(<<"Empresa inativa">>, 403)
       ELSE IF IsExpired(tenants[tenantId], t)
       THEN errorHandler(<<"Plano da empresa expirou">>, 403)
       ELSE Next_

----------------------------------------------------------------------------
(* index.ts and the routers: the middleware chain of each route *)

TenantRoutes ==
  {"GET /dashboard", "GET /clients", "POST /clients", "GET /projects",
   "POST /projects", "GET /tasks", "POST /tasks", "GET /transactions"}

UploadRoutes == {"POST /upload/single"}

(* the module of checkAccountAccess(...) on the route, if any *)
RouteModule(route) ==
  CASE route \in {"GET /clients", "POST /clients",
                  "PUT /clients/:id", "DELETE /clients/:id"} -> <<"clients">>
    [] route \in {"GET /projects", "POST /projects"} -> <<"projects">>
    [] route \in {"GET /tasks", "POST /tasks"}       -> <<"tasks">>
    [] route = "GET /transactions"                   -> <<"cash_flow">>
    [] OTHER                                         -> <<>>

(* the resource of checkAccountLimits(...) on the route, if any *)
RouteLimit(route) ==
  CASE route = "POST /clients"  -> <<"clients">>
    [] route = "POST /projects" -> <<"projects">>
    [] OTHER                    -> <<>>

Chain(route) ==
  IF route \in UploadRoutes
  THEN <<"authenticateToken", "tenantMiddleware", "authenticateToken", "handler">>
  ELSE <<"authenticateToken", "tenantMiddleware">>
       \o (IF RouteModule(route) # <<>> THEN <<"checkAccountAccess">> ELSE <<>>)
       \o (IF RouteLimit(route) # <<>> THEN <<"checkAccountLimits">> ELSE <<>>)
       \o <<"handler">>

Mutating(route) ==
  route \in {"POST /clients", "POST /projects", "POST /tasks", "POST /upload/single",
             "PUT /clients/:id", "DELETE /clients/:id"}

----------------------------------------------------------------------------
(* A protected request in flight *)

NoBody == [clientId |-> None, projectId |-> None, userId |-> None]

IdleReq ==
  [pc |-> "idle", route |-> None, session |-> None, bearer |-> <<>>,
   body |-> NoBody, i |-> 0, user |-> <<>>, ran |-> <<>>, wrote |-> {},
   made |-> <<>>, res |-> NoRes]

(* pc: idle, run (at Chain(route)[i]), audit (the handler awaits the audit  *)
(* write), done (answered)                                                 *)
Stage(s) ==
  IF req[s].pc = "run" THEN Chain(req[s].route)[req[s].i] ELSE req[s].pc

(* what a browser session can put in the Authorization header *)
Forged(u) ==
  [sig |-> "forged", userId |-> u, tenantId |-> user[u].tenantId,
   accountType |-> "MANAGERIAL", type |-> None, exp |-> now + AccessTTL]

(* forged tokens that claim to be each principal of the store *)
Forgeries == {<<Forged(x)>> : x \in {y \in DOMAIN user : user[y].exists}}

Bearers(u) == {<<>>} \cup Forgeries \cup {wallet[u].access, wallet[u].refresh}

(* the ids a body can name: those of the rows of the store, whatever their  *)
(* tenant, and one that no row has                                          *)
Ids(rows) == {r.id : r \in rows} \cup {"missing"}

Bodies(route) ==
  CASE route = "POST /projects" ->
         {[NoBody EXCEPT !.clientId = c, !.userId = u] :
            c \in Ids(client), u \in {x \in DOMAIN user : user[x].exists}}
    [] route = "POST /tasks" ->
         {[NoBody EXCEPT !.projectId = p, !.userId = u] :
            p \in Ids(project), u \in {x \in DOMAIN user : user[x].exists}}
    [] route \in {"PUT /clients/:id", "DELETE /clients/:id"} ->
         {[NoBody EXCEPT !.clientId = c] : c \in Ids(client)}   \* req.params.id
    [] OTHER -> {NoBody}

(* room for what the route creates: the requests of a run create at most   *)
(* MaxRows rows per table (the rows with the ids of IdPool) and MaxAudit    *)
(* audit records                                                            *)
IdPool == <<"x1", "x2", "x3", "x4">>

Made(rows) == {r \in rows : Includes(IdPool, r.id)}

Room(route) ==
  /\ Mutating(route) => Len(auditLog) < MaxAudit
  /\ route = "POST /clients" => Cardinality(Made(client)) < MaxRows
  /\ route = "POST /projects" => Cardinality(Made(project)) < MaxRows
  /\ route = "POST /tasks" => Cardinality(Made(task)) < MaxRows
  /\ route = "POST /upload/single" => Cardinality(Made(file)) < MaxRows

StartRequest(s, routes) ==
  /\ req[s].pc \in {"idle", "done"}
  /\ \E u \in DOMAIN wallet, route \in routes :
       /\ Room(route)
       /\ \E bearer \in Bearers(u), body \in Bodies(route) :
            req' = [req EXCEPT ![s] =
                      [IdleReq EXCEPT !.pc = "run", !.route = route, !.session = u,
                                      !.bearer = bearer, !.body = body, !.i = 1]]
  /\ UNCHANGED <<now, store, wallet, authRes, probe>>

(* a pipeline in which a denial is answered but does not end the request *)
OutcomeFallingThrough(r, stage, out) ==
  [r EXCEPT !.i = @ + 1, !.ran = Append(@, stage),
            !.res = IF out.next THEN @ ELSE out.res]

(* the middleware called next(): on to the next of the chain *)
Advance(r, stage) == [r EXCEPT !.i = @ + 1, !.ran = Append(@, stage)]

(* the middleware (or the handler) answered: the request is over *)
Finish(r, stage, res) ==
  [r EXCEPT !.pc = "done", !.ran = Append(@, stage), !.res = res]

Outcome(r, stage, out) ==
  IF out.next THEN Advance(r, stage) ELSE Finish(r, stage, out.res)

AuthenticateToken(s) ==
  /\ Stage(s) = "authenticateToken"
  /\ LET out == authenticateToken(req[s].bearer, user, tenant, now) IN
       req' = [req EXCEPT ![s] =
                 [Outcome(req[s], "authenticateToken", out) EXCEPT
                    !.user = IF out.next THEN out.user ELSE req[s].user]]
  /\ UNCHANGED <<now, store, wallet, authRes, probe>>

TenantMiddleware(s) ==
  /\ Stage(s) = "tenantMiddleware"
  /\ req' = [req EXCEPT ![s] =
               Outcome(req[s], "tenantMiddleware",
                       tenantMiddleware(req[s].user, tenant, now))]
  /\ UNCHANGED <<now, store, wallet, authRes, probe>>

CheckAccountAccess(s) ==
  /\ Stage(s) = "checkAccountAccess"
  /\ req' = [req EXCEPT ![s] =
               Outcome(req[s], "checkAccountAccess",
                       checkAccountAccess(req[s].user, RouteModule(req[s].route)[1]))]
  /\ UNCHANGED <<now, store, wallet, authRes, probe>>

CheckAccountLimits(s) ==
  /\ Stage(s) = "checkAccountLimits"
  /\ req' = [req EXCEPT ![s] =
               Outcome(req[s], "checkAccountLimits",
                       checkAccountLimits(req[s].user, RouteLimit(req[s].route)[1],
                                          client, project, file))]
  /\ UNCHANGED <<now, store, wallet, authRes, probe>>

----------------------------------------------------------------------------
(* routes/tenant.routes and routes/upload.routes: the handlers *)

(* the id of a new row: one no row of the table has *)
FreshId(rows) ==
  LET used == {r.id : r \in rows}
      k == CHOOSE n \in 1..Len(IdPool) :
             IdPool[n] \notin used /\ \A m \in 1..(n - 1) : IdPool[m] \in used
  IN IdPool[k]

RowById(rows, id) == CHOOSE r \in rows : r.id = id

HasId(rows, id) == \E r \in rows : r.id = id

UserExists(u) == u \in DOMAIN user /\ user[u].exists

SelectClient(id) == [id |-> id, name |-> RowById(client, id).name]

SelectProject(id) == [id |-> id, title |-> RowById(project, id).title]

SelectUser(u) == [id |-> u, name |-> user[u].name, email |-> user[u].email]

(* findMany include: the row with its client {id, name} and assignedTo      *)
(* {id, name, email}                                                        *)
WithClientAndAssignee(p) ==
  p @@ [client |-> SelectClient(p.clientId), assignedTo |-> SelectUser(p.userId)]

WithProjectAndAssignee(k) ==
  k @@ [project |-> SelectProject(k.projectId), assignedTo |-> SelectUser(k.userId)]

(* create include: the row with its client {name} (project {title}) and     *)
(* assignedTo {name, email}                                                 *)
CreatedProject(p) ==
  p @@ [client |-> [name |-> RowById(client, p.clientId).name],
        assignedTo |-> [name |-> user[p.userId].name, email |-> user[p.userId].email]]

CreatedTask(k) ==
  k @@ [project |-> [title |-> RowById(project, k.projectId).title],
        assignedTo |-> [name |-> user[k.userId].name, email |-> user[k.userId].email]]

Ok(status, body) == [status |-> status, body |-> body]

(* GET /dashboard: no checkAccountAccess on the route *)
Dashboard(s) ==
  /\ Stage(s) = "handler" /\ req[s].route = "GET /dashboard"
  /\ LET u == req[s].user[1] IN
       req' = [req EXCEPT ![s] =
         Finish(req[s], "handler",
                Ok(200, [totalClients |-> CountWhere(client, u.tenantId),
                         activeProjects |-> CountWhere(project, u.tenantId),
                         pendingTasks |-> CountWhere(task, u.tenantId),
                         hasFinancialAccess |-> u.accountType # "SIMPLE"]))]
  /\ UNCHANGED <<now, store, wallet, authRes, probe>>

(* GET /clients, /projects, /tasks, /transactions: findMany where tenantId *)
ListRows(s) ==
  /\ Stage(s) = "handler"
  /\ req[s].route \in {"GET /clients", "GET /projects", "GET /tasks", "GET /transactions"}
  /\ LET tenantId == req[s].user[1].tenantId
         rows ==
           CASE req[s].route = "GET /clients" ->
                  {c \in client : c.tenantId = tenantId}
             [] req[s].route = "GET /projects" ->
                  {WithClientAndAssignee(p) : p \in {x \in project : x.tenantId = tenantId}}
             [] req[s].route = "GET /tasks" ->
                  {WithProjectAndAssignee(k) : k \in {x \in task : x.tenantId = tenantId}}
             [] req[s].route = "GET /transactions" ->
                  {}   \* no route of the model writes the transactions table
     IN req' = [req EXCEPT ![s] = Finish(req[s], "handler", Ok(200, [rows |-> rows]))]
  /\ UNCHANGED <<now, store, wallet, authRes, probe>>

(* the create succeeded: the handler goes on to await the audit write *)
(* entity: the created row as the create query returns it (with its include) *)
Created(r, table, entity) ==
  [r EXCEPT !.pc = "audit", !.ran = Append(@, "handler"),
            !.wrote = @ \cup {table}, !.made = <<entity>>]

NewClient(tenantId) ==
  LET id == FreshId(client) IN [id |-> id, tenantId |-> tenantId, name |-> <<"name", id>>]

CreateClient(s) ==
  /\ Stage(s) = "handler" /\ req[s].route = "POST /clients"
  /\ LET row == NewClient(req[s].user[1].tenantId) IN
       /\ client' = client \cup {row}
       /\ req' = [req EXCEPT ![s] = Created(req[s], "client", row)]
  /\ UNCHANGED <<now, tenant, user, project, task, file, auditLog, wallet, authRes, probe>>

(* data: {...data, tenantId: user.tenantId}: clientId and userId are the body's *)
NewProject(tenantId, body) ==
  LET id == FreshId(project) IN
  [id |-> id, tenantId |-> tenantId, clientId |-> body.clientId,
   userId |-> body.userId, title |-> <<"title", id>>]

CreateProject(s) ==
  /\ Stage(s) = "handler" /\ req[s].route = "POST /projects"
  /\ IF HasId(client, req[s].body.clientId) /\ UserExists(req[s].body.userId)
     THEN LET row == NewProject(req[s].user[1].tenantId, req[s].body) IN
          /\ project' = project \cup {row}
          /\ req' = [req EXCEPT ![s] =
                       Created(req[s], "project", CreatedProject(row))]
     ELSE \* the foreign key fails: PrismaClientKnownRequestError P2003
          /\ project' = project
          /\ req' = [req EXCEPT ![s] = Finish(req[s], "handler", errorHandler500.res)]
  /\ UNCHANGED <<now, tenant, user, client, task, file, auditLog, wallet, authRes, probe>>

NewTask(tenantId, body) ==
  LET id == FreshId(task) IN
  [id |-> id, tenantId |-> tenantId, projectId |-> body.projectId,
   userId |-> body.userId, title |-> <<"title", id>>]

CreateTask(s) ==
  /\ Stage(s) = "handler" /\ req[s].route = "POST /tasks"
  /\ IF HasId(project, req[s].body.projectId) /\ UserExists(req[s].body.userId)
     THEN LET row == NewTask(req[s].user[1].tenantId, req[s].body) IN
          /\ task' = task \cup {row}
          /\ req' = [req EXCEPT ![s] =
                       Created(req[s], "task", CreatedTask(row))]
     ELSE /\ task' = task
          /\ req' = [req EXCEPT ![s] = Finish(req[s], "handler", errorHandler500.res)]
  /\ UNCHANGED <<now, tenant, user, client, project, file, auditLog, wallet, authRes, probe>>

(* POST /upload/single: sizes in MiB *)
NewFile(u) ==
  LET id == FreshId(file) IN
  [id |-> id, tenantId |-> u.tenantId, uploadedBy |-> u.userId, size |-> 1]

UploadSingle(s) ==
  /\ Stage(s) = "handler" /\ req[s].route = "POST /upload/single"
  /\ LET row == NewFile(req[s].user[1]) IN
       /\ file' = file \cup {row}
       /\ req' = [req EXCEPT ![s] = Created(req[s], "file", row)]
  /\ UNCHANGED <<now, tenant, user, client, project, task, auditLog, wallet, authRes, probe>>

----------------------------------------------------------------------------
(* utils/AppError createAuditLog, and the audit write of the handlers *)

AuditRecord(userId, tenantId, action, resourceType, resourceId) ==
  [userId |-> userId, tenantId |-> tenantId, action |-> action,
   resourceType |-> resourceType, resourceId |-> resourceId]

(* prisma.auditLog.create: ok is whether the store takes the write *)
createAuditLog(log, ok, record) == IF ok THEN Append(log, record) ELSE log

ResourceType(route) ==
  CASE route = "POST /clients"       -> "CLIENT"
    [] route = "POST /projects"      -> "PROJECT"
    [] route = "POST /tasks"         -> "TASK"
    [] route = "POST /upload/single" -> "FILE"

CreatedBody(r) ==
  CASE r.route = "POST /clients" ->
         [message |-> <<"Cliente criado com sucesso">>, client |-> r.made[1]]
    [] r.route = "POST /projects" ->
         [message |-> <<"Projeto criado com sucesso">>, project |-> r.made[1]]
    [] r.route = "POST /tasks" ->
         [message |-> <<"Tarefa criada com sucesso">>, task |-> r.made[1]]

(* await createAuditLog(...); res.status(201).json(...): a failed write is  *)
(* caught and logged inside createAuditLog                                  *)
AuditAndRespond(s) ==
  /\ Stage(s) = "audit" /\ req[s].route \in TenantRoutes
  /\ \E ok \in BOOLEAN :
       LET u == req[s].user[1]
           rec == AuditRecord(u.userId, u.tenantId, "CREATE",
                              ResourceType(req[s].route), req[s].made[1].id)
       IN
       /\ auditLog' = createAuditLog(auditLog, ok, rec)
       /\ req' = [req EXCEPT ![s] =
                    [Finish(req[s], "createAuditLog", Ok(201, CreatedBody(req[s])))
                       EXCEPT !.wrote = IF ok THEN @ \cup {"auditLog"} ELSE @]]
  /\ UNCHANGED <<now, tenant, user, client, project, task, file, wallet, authRes, probe>>

(* PUT and DELETE /clients/:id *)
ChangeRoutes == {"PUT /clients/:id", "DELETE /clients/:id"}

(* where: { id, tenantId: user.tenantId } *)
WhereIdAndTenant(rows, id, tenantId) == {r \in rows : r.id = id /\ r.tenantId = tenantId}

(* prisma.client.update: no row under the where clause is P2025 *)
UpdateClient(s) ==
  /\ Stage(s) = "handler" /\ req[s].route = "PUT /clients/:id"
  /\ LET found == WhereIdAndTenant(client, req[s].body.clientId, req[s].user[1].tenantId) IN
       IF found = {}
       THEN /\ client' = client
            /\ req' = [req EXCEPT ![s] = Finish(req[s], "handler", errorHandler404.res)]
       ELSE LET old == CHOOSE r \in found : TRUE
                new == [old EXCEPT !.name = <<"name", "updated">>]
            IN
            /\ client' = (client \ {old}) \cup {new}
            /\ req' = [req EXCEPT ![s] = Created(req[s], "client", new)]
  /\ UNCHANGED <<now, tenant, user, project, task, file, auditLog, wallet, authRes, probe>>

(* prisma.client.delete after the count of the requester's projects of the  *)
(* client; projects_clientId_fkey and tasks_projectId_fkey are ON DELETE    *)
(* CASCADE                                                                  *)
DeleteClient(s) ==
  /\ Stage(s) = "handler" /\ req[s].route = "DELETE /clients/:id"
  /\ LET id == req[s].body.clientId
         tenantId == req[s].user[1].tenantId
         projectCount == Cardinality({p \in project : p.clientId = id /\ p.tenantId = tenantId})
         found == WhereIdAndTenant(client, id, tenantId)
         gone == {p \in project : p.clientId = id}
     IN
     IF projectCount > 0
     THEN /\ UNCHANGED <<client, project, task>>
          /\ req' = [req EXCEPT ![s] =
               Finish(req[s], "handler",
                      errorHandler(<<"Nao e possivel excluir cliente com projetos associados">>,
                                   400).res)]
     ELSE IF found = {}
     THEN /\ UNCHANGED <<client, project, task>>
          /\ req' = [req EXCEPT ![s] = Finish(req[s], "handler", errorHandler404.res)]
     ELSE /\ client' = client \ found
          /\ project' = project \ gone
          /\ task' = {k \in task : k.projectId \notin {p.id : p \in gone}}
          /\ req' = [req EXCEPT ![s] = Created(req[s], "client", CHOOSE r \in found : TRUE)]
  /\ UNCHANGED <<now, tenant, user, file, auditLog, wallet, authRes, probe>>

(* await createAuditLog(...); res.json(...) of the update and the delete *)
AuditChangeAndRespond(s) ==
  /\ Stage(s) = "audit" /\ req[s].route \in ChangeRoutes
  /\ \E ok \in BOOLEAN :
       LET u == req[s].user[1]
           update == req[s].route = "PUT /clients/:id"
           rec == AuditRecord(u.userId, u.tenantId, IF update THEN "UPDATE" ELSE "DELETE",
                              "CLIENT", req[s].made[1].id)
           body == IF update
                   THEN [message |-> <<"Cliente atualizado com sucesso">>,
                         client |-> req[s].made[1]]
                   ELSE [message |-> <<"Cliente excluido com sucesso">>]
       IN
       /\ auditLog' = createAuditLog(auditLog, ok, rec)
       /\ req' = [req EXCEPT ![s] =
                    [Finish(req[s], "createAuditLog", Ok(200, body))
                       EXCEPT !.wrote = IF ok THEN @ \cup {"auditLog"} ELSE @]]
  /\ UNCHANGED <<now, tenant, user, client, project, task, file, wallet, authRes, probe>>

(* upload.routes: await prisma.auditLog.create(...) with no try/catch: a    *)
(* failed write is thrown to asyncHandler and answered by errorHandler      *)
UploadAuditAndRespond(s) ==
  /\ Stage(s) = "audit" /\ req[s].route \in UploadRoutes
  /\ \E ok \in BOOLEAN :
       LET u == req[s].user[1]
           rec == AuditRecord(u.userId, u.tenantId, "FILE_UPLOAD", "FILE", req[s].made[1].id)
       IN
       /\ auditLog' = IF ok THEN Append(auditLog, rec) ELSE auditLog
       /\ req' = [req EXCEPT ![s] =
                    [Finish(req[s], "auditLog.create",
                            IF ok
                            THEN Ok(200, [message |-> <<"Arquivo enviado com sucesso">>,
                                          file |-> req[s].made[1]])
                            ELSE errorHandler500.res)
                       EXCEPT !.wrote = IF ok THEN @ \cup {"auditLog"} ELSE @]]
  /\ UNCHANGED <<now, tenant, user, client, project, task, file, wallet, authRes, probe>>

----------------------------------------------------------------------------
(* routes/auth.routes.  A call is answered in one step; its response is     *)
(* in flight (authRes) until the caller takes it.                           *)

(* audit: the audit record the handler gave to createAuditLog, if any *)
NoAuthRes ==
  [route |-> None, session |-> None, input |-> <<>>, audit |-> <<>>, res |-> NoRes]

Idle == authRes = NoAuthRes

Answer(route, session, out) ==
  [route |-> route, session |-> session, input |-> <<>>, audit |-> <<>>,
   res |-> out.res]

(* the response to a call that came with no session: input is its body      *)
(* (and its x-admin-key header)                                             *)
AnswerTo(route, input, out) ==
  [route |-> route, session |-> None, input |-> <<input>>, audit |-> <<>>,
   res |-> out.res]

EmptyWallet == [access |-> <<>>, refresh |-> <<>>]

(* POST /login by the user of session u; passwordOk: bcrypt.compare *)
login(u, passwordOk, users, tenants, t) ==
  IF ~(u \in DOMAIN users /\ users[u].exists /\ users[u].isActive)
  THEN errorHandler(<<"Credenciais invalidas">>, 401)
  ELSE IF ~tenants[users[u].tenantId].isActive
  THEN errorHandler(<<"Empresa inativa. Entre em contato com o suporte.">>, 403)
  ELSE IF IsExpired(tenants[users[u].tenantId], t)
  THEN errorHandler(<<"Plano da empresa expirou. Renove sua assinatura.">>, 403)
  ELSE IF ~passwordOk
  THEN errorHandler(<<"Credenciais invalidas">>, 401)
  ELSE Respond(200, [message |-> <<"Login realizado com sucesso">>,
                     token |-> <<SignAccess(u, users[u], t)>>,
                     refreshToken |-> <<SignRefresh(u, users[u], t)>>,
                     user |-> [id |-> u, accountType |-> users[u].accountType,
                               tenantId |-> users[u].tenantId]])

Login(u) ==
  /\ Idle /\ Len(auditLog) < MaxAudit
  /\ \E passwordOk \in BOOLEAN, ok \in BOOLEAN :
       LET out == login(u, passwordOk, user, tenant, now)
           rec == AuditRecord(u, user[u].tenantId, "LOGIN", "USER", u)
           answer == [Answer("login", u, out) EXCEPT
                        !.input = <<[passwordOk |-> passwordOk]>>]
       IN
       IF out.res.status = 200
       THEN /\ user' = [user EXCEPT ![u].lastLogin = {now}]
            /\ auditLog' = createAuditLog(auditLog, ok, rec)
            /\ authRes' = [answer EXCEPT !.audit = <<rec>>]
       ELSE /\ authRes' = answer
            /\ UNCHANGED <<user, auditLog>>
  /\ UNCHANGED <<now, tenant, client, project, task, file, wallet, req, probe>>

(* POST /refresh: every error thrown inside the try, the AppErrors too, is  *)
(* caught and answered 'Refresh token invalido'                             *)
refresh(presented, users, tenants, t) ==
  IF presented = <<>>
  THEN errorHandler(<<"Refresh token nao fornecido">>, 401)
  ELSE LET decoded == presented[1] IN
       IF \/ JwtVerify(decoded, JWT_REFRESH_SECRET, t) # "ok"
          \/ decoded.type # "refresh"
          \/ ~(decoded.userId \in DOMAIN users /\ users[decoded.userId].exists)
          \/ ~users[decoded.userId].isActive
          \/ ~tenants[users[decoded.userId].tenantId].isActive
       THEN errorHandler(<<"Refresh token invalido">>, 401)
       ELSE Respond(200, [token |-> <<SignAccess(decoded.userId, users[decoded.userId], t)>>])

Refresh(u) ==
  /\ Idle
  /\ \E presented \in Bearers(u) :
       authRes' = [Answer("refresh", u, refresh(presented, user, tenant, now))
                     EXCEPT !.input = <<[refreshToken |-> presented]>>]
  /\ UNCHANGED <<now, store, wallet, req, probe>>

(* a logout that ends the session on the server: the principal is marked   *)
(* inactive, so that its tokens are refused from then on                    *)
LogoutRevoking(u) ==
  /\ Idle
  /\ authRes' = Answer("logout", u,
                       Respond(200, [message |-> <<"Logout realizado com sucesso">>]))
  /\ user' = [user EXCEPT ![u].isActive = FALSE]
  /\ UNCHANGED <<now, tenant, client, project, task, file, auditLog, wallet, req, probe>>

(* POST /logout *)
Logout(u) ==
  /\ Idle
  /\ authRes' = Answer("logout", u,
                       Respond(200, [message |-> <<"Logout realizado com sucesso">>]))
  /\ UNCHANGED <<now, store, wallet, req, probe>>

(* the caller takes the response and keeps the tokens of a login or a       *)
(* refresh.  The React client drops its token on logout; the wallet keeps   *)
(* it, as any holder of a copy does                                         *)
Receive ==
  /\ ~Idle
  /\ authRes' = NoAuthRes
  /\ LET u == authRes.session
         body == authRes.res.body
     IN
     wallet' =
       IF authRes.res.status # 200 \/ u \notin DOMAIN wallet THEN wallet
       ELSE CASE authRes.route = "login" ->
                   [wallet EXCEPT ![u] = [access |-> body.token,
                                          refresh |-> body.refreshToken]]
              [] authRes.route = "refresh" ->
                   [wallet EXCEPT ![u].access = body.token]
              [] OTHER -> wallet
  /\ UNCHANGED <<now, store, req, probe>>

(* POST /register and POST /admin/tenants/:id/users share the capacity check *)
CountAccounts(users, tenantId, accountType) ==
  Cardinality({u \in DOMAIN users :
                 users[u].exists /\ users[u].tenantId = tenantId
                 /\ users[u].accountType = accountType})

MaxAccounts(row, accountType) ==
  CASE accountType = "SIMPLE"     -> row.maxSimpleAccounts
    [] accountType = "COMPOSITE"  -> row.maxCompositeAccounts
    [] accountType = "MANAGERIAL" -> row.maxManagerialAccounts

UserPool == <<"u1", "u2", "u3", "u4", "u5", "u6">>

UserPoolSet == {UserPool[i] : i \in 1..Len(UserPool)}

FreshUserId(users) ==
  LET k == CHOOSE n \in 1..Len(UserPool) :
             ~users[UserPool[n]].exists /\ \A m \in 1..(n - 1) : users[UserPool[m]].exists
  IN UserPool[k]

EmailOf(u) == <<"email", u>>

EmailInUse(users, email) == \E u \in DOMAIN users : users[u].exists /\ users[u].email = email

NewUser(u, tenantId, accountType) ==
  [exists |-> TRUE, tenantId |-> tenantId, accountType |-> accountType,
   isActive |-> TRUE, name |-> <<"name", u>>, email |-> EmailOf(u), lastLogin |-> {}]

CreatedUserBody(u, accountType) ==
  [message |-> <<"Usuario criado com sucesso">>,
   user |-> [id |-> u, email |-> EmailOf(u), name |-> <<"name", u>>,
             accountType |-> accountType]]

(* a registration that does not count the principals of the tier *)
registerUncounted(email, tenantId, accountType, users, tenants) ==
  IF EmailInUse(users, email)
  THEN errorHandler(<<"Email ja esta em uso">>, 409)
  ELSE IF ~(tenantId \in DOMAIN tenants /\ tenants[tenantId].exists)
  THEN errorHandler(<<"Empresa nao encontrada">>, 404)
  ELSE IF ~tenants[tenantId].isActive
  THEN errorHandler(<<"Empresa inativa">>, 403)
  ELSE Respond(201, CreatedUserBody(FreshUserId(users), accountType))

register(email, tenantId, accountType, users, tenants) ==
  IF EmailInUse(users, email)
  THEN errorHandler(<<"Email ja esta em uso">>, 409)
  ELSE IF ~(tenantId \in DOMAIN tenants /\ tenants[tenantId].exists)
  THEN errorHandler(<<"Empresa nao encontrada">>, 404)
  ELSE IF ~tenants[tenantId].isActive
  THEN errorHandler(<<"Empresa inativa">>, 403)
  ELSE LET currentCount == CountAccounts(users, tenantId, accountType)
           maxAllowed == MaxAccounts(tenants[tenantId], accountType)
       IN
       IF LimitExceeded(maxAllowed, currentCount)
       THEN errorHandler(<<"Limite de contas ", accountType,
                           " atingido para esta empresa. Maximo: ", ToString(maxAllowed)>>,
                         403)
       ELSE Respond(201, CreatedUserBody(FreshUserId(users), accountType))

(* emails: the email of the body is one in use or the new user's own *)
Emails(users) ==
  {users[u].email : u \in {x \in DOMAIN users : users[x].exists}}
    \cup {EmailOf(FreshUserId(users))}

Register ==
  /\ Idle /\ Len(auditLog) < MaxAudit
  /\ \E x \in UserPoolSet : ~user[x].exists
  /\ \E email \in Emails(user), tenantId \in DOMAIN tenant,
        accountType \in AccountTypeSet, ok \in BOOLEAN :
       LET out == register(email, tenantId, accountType, user, tenant)
           u == FreshUserId(user)
           rec == AuditRecord(u, tenantId, "REGISTER", "USER", u)
           answer == AnswerTo("register",
                              [adminKey |-> <<>>, tenantId |-> tenantId,
                               accountType |-> accountType, email |-> email], out)
       IN
       IF out.res.status = 201
       THEN /\ user' = [user EXCEPT ![u] = NewUser(u, tenantId, accountType)]
            /\ auditLog' = createAuditLog(auditLog, ok, rec)
            /\ authRes' = [answer EXCEPT !.audit = <<rec>>]
       ELSE /\ authRes' = answer
            /\ UNCHANGED <<user, auditLog>>
  /\ UNCHANGED <<now, tenant, client, project, task, file, wallet, req, probe>>

----------------------------------------------------------------------------
(* routes/admin.routes, behind requireAdmin *)

ADMIN_KEY == "ADMIN_KEY"

AdminKeys == {<<>>, <<"wrong">>, <<ADMIN_KEY>>}

(* the headers of a call: x-admin-key and the bearer of Authorization,      *)
(* each <<>> when absent                                                    *)
Headers(adminKeys, bearers) ==
  {[adminKey |-> k, authorization |-> b] : k \in adminKeys, b \in bearers}

(* a gate that asks for the header and does not compare it *)
requireAdminAnyKey(adminKey) ==
  IF adminKey = <<>>
  THEN errorHandler(<<"Acesso administrativo nao autorizado">>, 403)
  ELSE Next_

(* adminKey: the x-admin-key header, <<>> when absent *)
requireAdmin(adminKey) ==
  IF adminKey = <<>> \/ adminKey[1] # ADMIN_KEY
  THEN errorHandler(<<"Acesso administrativo nao autorizado">>, 403)
  ELSE Next_

adminCreateUser(tenantId, email, accountType, users, tenants) ==
  IF ~(tenantId \in DOMAIN tenants /\ tenants[tenantId].exists)
  THEN errorHandler(<<"Empresa nao encontrada">>, 404)
  ELSE LET currentCount == CountAccounts(users, tenantId, accountType)
           maxAllowed == MaxAccounts(tenants[tenantId], accountType)
       IN
       IF LimitExceeded(maxAllowed, currentCount)
       THEN errorHandler(<<"Limite de contas ", accountType, " atingido. Maximo: ",
                           ToString(maxAllowed)>>, 403)
       ELSE IF EmailInUse(users, email)
       THEN errorHandler(<<"Email ja esta em uso">>, 409)
       ELSE Respond(201, CreatedUserBody(FreshUserId(users), accountType))

(* POST /admin/tenants/:id/users *)
AdminCreateUser(headers) ==
  /\ Idle
  /\ \E x \in UserPoolSet : ~user[x].exists
  /\ \E h \in headers, email \in Emails(user), tenantId \in DOMAIN tenant,
        accountType \in AccountTypeSet :
       LET gate == requireAdmin(h.adminKey)
           out == IF gate.next
                  THEN adminCreateUser(tenantId, email, accountType, user, tenant)
                  ELSE gate
           u == FreshUserId(user)
       IN
       /\ authRes' = AnswerTo("admin POST /tenants/:id/users",
                               h @@ [tenantId |-> tenantId,
                                     accountType |-> accountType, email |-> email], out)
       /\ user' = IF out.res.status = 201
                  THEN [user EXCEPT ![u] = NewUser(u, tenantId, accountType)]
                  ELSE user
  /\ UNCHANGED <<now, tenant, client, project, task, file, auditLog, wallet, req, probe>>

(* PATCH /admin/tenants/:id: a field of the body that is undefined (<<>>)   *)
(* is left as it is; if (expiresAt) never clears the date                   *)
NoPatch ==
  [isActive |-> <<>>, expiresAt |-> <<>>, maxSimpleAccounts |-> <<>>,
   maxCompositeAccounts |-> <<>>, maxManagerialAccounts |-> <<>>]

Patched(old, new) == IF new = <<>> THEN old ELSE new[1]

updateTenant(row, patch) ==
  [row EXCEPT !.isActive = Patched(@, patch.isActive),
              !.expiresAt = IF patch.expiresAt = <<>> THEN @ ELSE {patch.expiresAt[1]},
              !.maxSimpleAccounts = Patched(@, patch.maxSimpleAccounts),
              !.maxCompositeAccounts = Patched(@, patch.maxCompositeAccounts),
              !.maxManagerialAccounts = Patched(@, patch.maxManagerialAccounts)]

AdminPatchTenant(headers, tenantIds, patches) ==
  /\ Idle
  /\ \E h \in headers, id \in tenantIds, patch \in patches :
       LET gate == requireAdmin(h.adminKey)
           input == h @@ [tenantId |-> id]
       IN
       IF gate.next /\ ~tenant[id].exists
       THEN /\ tenant' = tenant
            /\ authRes' = AnswerTo("admin PATCH /tenants/:id", input, errorHandler404)
       ELSE IF gate.next
       THEN /\ tenant' = [tenant EXCEPT ![id] = updateTenant(@, patch)]
            /\ authRes' = AnswerTo("admin PATCH /tenants/:id", input,
                                   Respond(200, [message |-> <<"Empresa atualizada com sucesso">>]))
       ELSE /\ tenant' = tenant
            /\ authRes' = AnswerTo("admin PATCH /tenants/:id", input, gate)
  /\ UNCHANGED <<now, user, client, project, task, file, auditLog, wallet, req, probe>>

(* PATCH /admin/users/:id: data: { isActive } *)
AdminPatchUser(headers, userIds) ==
  /\ Idle
  /\ \E h \in headers, id \in userIds, isActive \in BOOLEAN :
       LET gate == requireAdmin(h.adminKey)
           input == h @@ [userId |-> id]
       IN
       IF gate.next /\ ~user[id].exists
       THEN /\ user' = user
            /\ authRes' = AnswerTo("admin PATCH /users/:id", input, errorHandler404)
       ELSE IF gate.next
       THEN /\ user' = [user EXCEPT ![id].isActive = isActive]
            /\ authRes' = AnswerTo("admin PATCH /users/:id", input,
                                   Respond(200, [message |-> <<"Usuario atualizado com sucesso">>]))
       ELSE /\ user' = user
            /\ authRes' = AnswerTo("admin PATCH /users/:id", input, gate)
  /\ UNCHANGED <<now, tenant, client, project, task, file, auditLog, wallet, req, probe>>

(* the migration's foreign keys to tenants are ON DELETE CASCADE: the rows   *)
(* of a deleted tenant go with it, its audit records included               *)
CascadeRows(rows, tenantId) == {r \in rows : r.tenantId # tenantId}

CascadeUsers(users, tenantId) ==
  [u \in DOMAIN users |->
     IF users[u].exists /\ users[u].tenantId = tenantId THEN NoRow ELSE users[u]]

CascadeAuditLog(log, tenantId) ==
  LET Kept(rec) == rec.tenantId # tenantId IN SelectSeq(log, Kept)

(* a deletion that does not look for associated data *)
adminDeleteTenantUnguarded(id, tenants, users, clients, projects) ==
  IF ~(id \in DOMAIN tenants /\ tenants[id].exists)
  THEN errorHandler(<<"Empresa nao encontrada">>, 404)
  ELSE Respond(200, [message |-> <<"Empresa excluida com sucesso">>])

adminDeleteTenant(id, tenants, users, clients, projects) ==
  IF ~(id \in DOMAIN tenants /\ tenants[id].exists)
  THEN errorHandler(<<"Empresa nao encontrada">>, 404)
  ELSE LET nUsers == Cardinality({u \in DOMAIN users :
                                    users[u].exists /\ users[u].tenantId = id})
           nClients == CountWhere(clients, id)
           nProjects == CountWhere(projects, id)
           hasData == nUsers > 0 \/ nClients > 0 \/ nProjects > 0
       IN
       IF hasData
       THEN errorHandler(<<"Nao e possivel excluir empresa com dados associados. Usuarios: ",
                           ToString(nUsers), ", Clientes: ", ToString(nClients),
                           ", Projetos: ", ToString(nProjects)>>, 400)
       ELSE Respond(200, [message |-> <<"Empresa excluida com sucesso">>])

(* DELETE /admin/tenants/:id *)
AdminDeleteTenant(headers, tenantIds) ==
  /\ Idle
  /\ \E h \in headers, id \in tenantIds :
       LET gate == requireAdmin(h.adminKey)
           out == IF gate.next
                  THEN adminDeleteTenant(id, tenant, user, client, project)
                  ELSE gate
       IN
       /\ authRes' = AnswerTo("admin DELETE /tenants/:id",
                               h @@ [tenantId |-> id], out)
       /\ IF out.res.status = 200
          THEN /\ tenant' = [tenant EXCEPT ![id].exists = FALSE]
               /\ user' = CascadeUsers(user, id)
               /\ client' = CascadeRows(client, id)
               /\ project' = CascadeRows(project, id)
               /\ task' = CascadeRows(task, id)
               /\ file' = CascadeRows(file, id)
               /\ auditLog' = CascadeAuditLog(auditLog, id)
          ELSE UNCHANGED store
  /\ UNCHANGED <<now, wallet, req, probe>>

----------------------------------------------------------------------------
(* The environment: the clock, and a write to the store that is no route of *)
(* the server (a principal's tier changed administratively)                 *)

Tick ==
  /\ now < MaxNow
  /\ now' = now + 1
  /\ UNCHANGED <<store, wallet, req, authRes, probe>>

ChangeAccountType(userIds) ==
  /\ \E id \in userIds, accountType \in AccountTypeSet :
       /\ user[id].exists /\ user[id].accountType # accountType
       /\ user' = [user EXCEPT ![id].accountType = accountType]
  /\ UNCHANGED <<now, tenant, client, project, task, file, auditLog, wallet, req,
                 authRes, probe>>

----------------------------------------------------------------------------
(* The store after construction: tenants and their first principals as the  *)
(* admin routes create them (active, no expiry date), the tables empty      *)

NoProbe == [pc |-> "none"]

TenantRow(maxSimple, maxComposite, maxManagerial) ==
  [exists |-> TRUE, isActive |-> TRUE, expiresAt |-> {},
   maxSimpleAccounts |-> maxSimple, maxCompositeAccounts |-> maxComposite,
   maxManagerialAccounts |-> maxManagerial]

(* prisma/seed: the limits of the first two tenants *)
SeedTenants == ("t1" :> TenantRow(2, 0, 0)) @@ ("t2" :> TenantRow(3, 2, 0))

(* owners: user id -> <<tenantId, accountType>> of the principals that exist *)
Users(owners) ==
  [u \in UserPoolSet |->
     IF u \in DOMAIN owners THEN NewUser(u, owners[u][1], owners[u][2]) ELSE NoRow]

InitStore(owners, clients, projects) ==
  /\ now = 0
  /\ tenant = SeedTenants
  /\ user = Users(owners)
  /\ client = clients
  /\ project = projects
  /\ task = {} /\ file = {}
  /\ auditLog = <<>>

InitIdle(sessions, slots) ==
  /\ wallet = [u \in sessions |-> EmptyWallet]
  /\ req = [s \in slots |-> IdleReq]
  /\ authRes = NoAuthRes
  /\ probe = NoProbe

----------------------------------------------------------------------------
(* Data isolation: a principal of t1 creates and lists projects and tasks,  *)
(* whose bodies may name any client, project or user id of the store        *)

SeedClient(id, tenantId) == [id |-> id, tenantId |-> tenantId, name |-> <<"name", id>>]

SeedProject(id, tenantId, clientId, userId) ==
  [id |-> id, tenantId |-> tenantId, clientId |-> clientId, userId |-> userId,
   title |-> <<"title", id>>]

IsolationRoutes ==
  {"GET /clients", "GET /projects", "POST /projects", "GET /tasks", "POST /tasks"}

InitIsolation ==
  /\ InitStore(("u1" :> <<"t1", "SIMPLE">>) @@ ("u2" :> <<"t2", "COMPOSITE">>),
               {SeedClient("s1", "t1"), SeedClient("s2", "t2")},
               {SeedProject("s2", "t2", "s2", "u2")})
  /\ InitIdle({"u1"}, {1})

NextIsolation ==
  \/ \E s \in DOMAIN req : StartRequest(s, IsolationRoutes)
  \/ \E s \in DOMAIN req : AuthenticateToken(s)
  \/ \E s \in DOMAIN req : TenantMiddleware(s)
  \/ \E s \in DOMAIN req : CheckAccountAccess(s)
  \/ \E s \in DOMAIN req : CheckAccountLimits(s)
  \/ \E s \in DOMAIN req : ListRows(s)
  \/ \E s \in DOMAIN req : CreateProject(s)
  \/ \E s \in DOMAIN req : CreateTask(s)
  \/ \E s \in DOMAIN req : AuditAndRespond(s)
  \/ \E u \in DOMAIN wallet : Login(u)
  \/ Receive

SpecIsolation == InitIsolation /\ [][NextIsolation]_vars

(* the tenants that own the records of a project or task as a response      *)
(* embeds it: the row itself, its nested client or project, its assignee    *)
OwnersOfProject(p) ==
  {p.tenantId, RowById(client, p.clientId).tenantId, user[p.userId].tenantId}

OwnersOfTask(k) ==
  {k.tenantId, RowById(project, k.projectId).tenantId, user[k.userId].tenantId}

OwnersIn(r) ==
  CASE r.route = "GET /clients"  -> {c.tenantId : c \in r.res.body.rows}
    [] r.route = "GET /projects" -> UNION {OwnersOfProject(p) : p \in r.res.body.rows}
    [] r.route = "GET /tasks"    -> UNION {OwnersOfTask(k) : k \in r.res.body.rows}
    [] r.route = "POST /projects" /\ r.res.status = 201 -> OwnersOfProject(r.res.body.project)
    [] r.route = "POST /tasks" /\ r.res.status = 201 -> OwnersOfTask(r.res.body.task)
    [] OTHER -> {}

Answered(r) == r.pc = "done" /\ r.res.status \in {200, 201}

(* C1: read isolation.  Every record a response returns to a principal,     *)
(* the nested client, project and assignedTo records included, belongs to   *)
(* the tenant of that principal.                                            *)
ReadIsolation ==
  \A s \in DOMAIN req :
    Answered(req[s]) => OwnersIn(req[s]) \subseteq {req[s].user[1].tenantId}

(* C1: a list of projects was returned to a principal of t1 *)
ProjectsListed ==
  \E s \in DOMAIN req :
    /\ Answered(req[s]) /\ req[s].route = "GET /projects"
    /\ req[s].res.body.rows # {}

----------------------------------------------------------------------------
(* The request pipeline: a principal of t1 logs in and sends protected      *)
(* requests while the administrator patches its tenant and its account      *)

PipelineRoutes ==
  {"GET /dashboard", "GET /clients", "POST /clients", "GET /transactions",
   "POST /upload/single"}

(* the bodies of PATCH /admin/tenants/:id: isActive, or an expiry date the  *)
(* clock reaches and then passes                                            *)
ExpiryDates == 0..(MaxNow - 1)

StatePatches ==
  {[NoPatch EXCEPT !.isActive = <<b>>] : b \in BOOLEAN}
    \cup {[NoPatch EXCEPT !.expiresAt = <<d>>] : d \in ExpiryDates}

(* n clients of tenantId, as earlier requests left them *)
SeedClients(n, tenantId) == {SeedClient(ToString(k), tenantId) : k \in 1..n}

(* the tenant of the principal has no client yet, or as many as the SIMPLE  *)
(* tier allows                                                              *)
Init ==
  /\ \E n \in {0, ACCOUNT_LIMITS.SIMPLE.maxClients} :
       InitStore(("u1" :> <<"t1", "SIMPLE">>) @@ ("u2" :> <<"t2", "COMPOSITE">>),
                 SeedClients(n, "t1"), {})
  /\ InitIdle({"u1"}, {1})

InitSession ==
  /\ InitStore(("u1" :> <<"t1", "SIMPLE">>) @@ ("u2" :> <<"t2", "COMPOSITE">>), {}, {})
  /\ InitIdle({"u1"}, {1})

Next ==
  \/ \E s \in DOMAIN req : StartRequest(s, PipelineRoutes)
  \/ \E s \in DOMAIN req : AuthenticateToken(s)
  \/ \E s \in DOMAIN req : TenantMiddleware(s)
  \/ \E s \in DOMAIN req : CheckAccountAccess(s)
  \/ \E s \in DOMAIN req : CheckAccountLimits(s)
  \/ \E s \in DOMAIN req : Dashboard(s)
  \/ \E s \in DOMAIN req : ListRows(s)
  \/ \E s \in DOMAIN req : CreateClient(s)
  \/ \E s \in DOMAIN req : UploadSingle(s)
  \/ \E s \in DOMAIN req : AuditAndRespond(s)
  \/ \E s \in DOMAIN req : UploadAuditAndRespond(s)
  \/ \E u \in DOMAIN wallet : Login(u)
  \/ Receive
  \/ AdminPatchTenant(Headers(AdminKeys, {<<>>}), {"t1"}, StatePatches)
  \/ AdminPatchUser(Headers(AdminKeys, {<<>>}), DOMAIN wallet)

Spec == Init /\ [][Next]_vars

----------------------------------------------------------------------------
(* The session: a principal of t1 logs in, refreshes and reads while time   *)
(* passes, the administrator patches its tenant and its account, and its    *)
(* tier is changed in the store                                             *)

SessionRoutes == {"GET /transactions"}

NextSession ==
  \/ \E s \in DOMAIN req : StartRequest(s, SessionRoutes)
  \/ \E s \in DOMAIN req : AuthenticateToken(s)
  \/ \E s \in DOMAIN req : TenantMiddleware(s)
  \/ \E s \in DOMAIN req : CheckAccountAccess(s)
  \/ \E s \in DOMAIN req : ListRows(s)
  \/ \E u \in DOMAIN wallet : Login(u)
  \/ \E u \in DOMAIN wallet : Refresh(u)
  \/ \E u \in DOMAIN wallet : Logout(u)
  \/ Receive
  \/ AdminPatchTenant(Headers({<<ADMIN_KEY>>}, {<<>>}), {"t1"}, StatePatches)
  \/ AdminPatchUser(Headers({<<ADMIN_KEY>>}, {<<>>}), DOMAIN wallet)
  \/ ChangeAccountType(DOMAIN wallet)
  \/ Tick

SpecSession == InitSession /\ [][NextSession]_vars

(* the bearer is an access token the server issued that has not expired *)
ValidAccess(bearer) == bearer # <<>> /\ JwtVerify(bearer[1], JWT_SECRET, now) = "ok"

(* the principal of the token exists and is active *)
PrincipalActive(bearer) == user[bearer[1].userId].exists /\ user[bearer[1].userId].isActive

TenantOf(bearer) == tenant[user[bearer[1].userId].tenantId]

Denied(r, status, message) ==
  r.pc = "done" /\ r.res.status = status /\ r.res.body.message = message

HandlerRan(r) == Includes(r.ran, "handler")

(* C2: the state of the tenant is re-checked on every request.  A token     *)
(* stage that runs for a valid, unexpired access token of an active         *)
(* principal while the tenant is flagged inactive ends the request with     *)
(* 403 'Empresa inativa' (TenantInactive), and the handler has not run.     *)
TenantRecheckedStep ==
  \A s \in DOMAIN req :
    ( /\ Stage(s) = "authenticateToken" /\ req'[s] # req[s]
      /\ ValidAccess(req[s].bearer) /\ PrincipalActive(req[s].bearer)
      /\ ~TenantOf(req[s].bearer).isActive )
    => /\ Denied(req'[s], 403, <<"Empresa inativa">>)
       /\ ~HandlerRan(req'[s])

AttachedClaimsAreTokenClaims ==
  \A s \in DOMAIN req :
    req[s].user # <<>> =>
      /\ req[s].user[1].userId = req[s].bearer[1].userId
      /\ req[s].user[1].tenantId = req[s].bearer[1].tenantId
      /\ req[s].user[1].accountType = req[s].bearer[1].accountType

(* C3: a request with a token issued to a SIMPLE principal passed the gate  *)
(* of cash_flow                                                             *)
SimpleTokenPassedCashFlow ==
  \E s \in DOMAIN req :
    /\ req[s].route = "GET /transactions" /\ HandlerRan(req[s])
    /\ req[s].bearer[1].accountType = "SIMPLE"

(* the stages in the order of the pipeline *)
Rank(stage) ==
  CASE stage = "authenticateToken"  -> 1
    [] stage = "tenantMiddleware"   -> 2
    [] stage = "checkAccountAccess" -> 3
    [] stage = "checkAccountLimits" -> 4
    [] stage = "handler"            -> 5
    [] stage \in {"createAuditLog", "auditLog.create"} -> 6

(* a stage runs after a later one only if it is run again *)
InOrder(ran) ==
  \A i, j \in 1..Len(ran) :
    (i < j /\ Rank(ran[j]) < Rank(ran[i])) => \E k \in 1..i : ran[k] = ran[j]

(* what the stage the request is at decides on the store as it is *)
Decision(s) ==
  CASE Stage(s) = "authenticateToken" ->
         authenticateToken(req[s].bearer, user, tenant, now)
    [] Stage(s) = "tenantMiddleware" ->
         tenantMiddleware(req[s].user, tenant, now)
    [] Stage(s) = "checkAccountAccess" ->
         checkAccountAccess(req[s].user, RouteModule(req[s].route)[1])
    [] Stage(s) = "checkAccountLimits" ->
         checkAccountLimits(req[s].user, RouteLimit(req[s].route)[1], client, project, file)

Deciding(s) ==
  Stage(s) \in {"authenticateToken", "tenantMiddleware", "checkAccountAccess",
                "checkAccountLimits"}

(* C4: the stages run in the order token, tenant, capability, quota,        *)
(* handler, audit; a stage that denies ends the request with its answer,    *)
(* no handler has run, the store (entities and audit log) is as it was,     *)
(* and a request that is over does nothing more.                            *)
FirstDenialEndsStep ==
  \A s \in DOMAIN req :
    req'[s] # req[s] =>
      /\ InOrder(req'[s].ran)
      /\ Deciding(s) =>
           /\ store' = store
           /\ IF Decision(s).next
              THEN req'[s].pc = "run" /\ req'[s].i = req[s].i + 1
              ELSE /\ req'[s].pc = "done" /\ req'[s].res = Decision(s).res
                   /\ ~HandlerRan(req'[s]) /\ req'[s].wrote = {}
      /\ req[s].pc = "done" =>
           req'[s].pc = "run" /\ req'[s].i = 1 /\ req'[s].ran = <<>> /\ store' = store

DeniedAt(r, stage, status) ==
  /\ r.pc = "done" /\ r.res.status = status
  /\ r.ran # <<>> /\ r.ran[Len(r.ran)] = stage

GateBeforeHandler ==
  \A s \in DOMAIN req :
    HandlerRan(req[s]) => Includes(req[s].ran, "checkAccountAccess")

(* C5: the dashboard was served to a principal whose tier does not list it *)
DashboardServedToSimple ==
  \E s \in DOMAIN req :
    /\ Answered(req[s]) /\ req[s].route = "GET /dashboard"
    /\ ~Includes(ACCOUNT_MODULES[req[s].user[1].accountType], "dashboard")

(* C10: a refresh mints an access token only if, when it is served, the     *)
(* principal exists and is active and its tenant is active and not expired. *)
RefreshMintsOnlyIfLiveStep ==
  (Idle /\ authRes'.route = "refresh" /\ authRes'.res.status = 200) =>
     LET p == authRes'.res.body.token[1].userId IN
     /\ user[p].exists /\ user[p].isActive
     /\ tenant[user[p].tenantId].isActive
     /\ ~IsExpired(tenant[user[p].tenantId], now)

RefreshMintsOnlyIfLive == [][RefreshMintsOnlyIfLiveStep]_vars

(* C10: a refresh was answered with a new access token *)
RefreshMinted == authRes.route = "refresh" /\ authRes.res.status = 200

(* the refresh token a refresh request presented, as a sequence *)
Presented(res) == res.input[1].refreshToken

(* the token is a refresh token the server issued that has not expired *)
ValidRefresh(presented) ==
  /\ presented # <<>>
  /\ JwtVerify(presented[1], JWT_REFRESH_SECRET, now) = "ok"
  /\ presented[1].type = "refresh"

(* the answer of POST /refresh to a token whose signature does not verify *)
InvalidRefreshAnswer(u) == refresh(<<Forged(u)>>, user, tenant, now).res

(* C11: a refresh that presents a correctly signed, unexpired refresh token *)
(* of a principal that has been deactivated does not succeed, and its       *)
(* answer (TenantOrPrincipalInactive) differs from the answer to an invalid *)
(* refresh token.                                                           *)
RefreshOfDeactivatedStep ==
  ( /\ Idle /\ authRes'.route = "refresh"
    /\ ValidRefresh(Presented(authRes'))
    /\ user[Presented(authRes')[1].userId].exists
    /\ ~user[Presented(authRes')[1].userId].isActive )
  => /\ authRes'.res.status # 200
     /\ authRes'.res # InvalidRefreshAnswer(authRes'.session)

RefreshOfDeactivatedIsDistinct == [][RefreshOfDeactivatedStep]_vars

(* C11: the refresh token of a login was presented after the principal was  *)
(* deactivated, and the refresh was refused                                 *)
DeactivatedRefreshRefused ==
  /\ authRes.route = "refresh" /\ authRes.res.status = 401
  /\ ValidRefresh(Presented(authRes))
  /\ Presented(authRes) = wallet[authRes.session].refresh
  /\ ~user[authRes.session].isActive

(* the answer of the token stage to a bearer whose signature does not verify *)
InvalidAccessAnswer(u) == authenticateToken(<<Forged(u)>>, user, tenant, now).res

(* C12: token types are never confused.  A refresh token sent as the bearer *)
(* of a protected request is rejected at the token stage, with no claims    *)
(* attached and no handler run; an access token presented to the refresh    *)
(* operation mints nothing; and both answers are of a kind of their own     *)
(* (TokenTypeMismatch), distinct from the answer to an invalid token.       *)
TokenTypesNotConfusedStep ==
  /\ \A s \in DOMAIN req :
       ( /\ Stage(s) = "authenticateToken" /\ req'[s] # req[s]
         /\ ValidRefresh(req[s].bearer) )
       => /\ req'[s].pc = "done" /\ req'[s].res.status = 401
          /\ req'[s].user = <<>> /\ ~HandlerRan(req'[s])
          /\ req'[s].res # InvalidAccessAnswer(req[s].session)
  /\ ( /\ Idle /\ authRes'.route = "refresh"
       /\ ValidAccess(Presented(authRes')) )
     => /\ authRes'.res.status = 401
        /\ authRes'.res # InvalidRefreshAnswer(authRes'.session)

TokenTypesNotConfused == [][TokenTypesNotConfusedStep]_vars

(* C12: the refresh token of a login was sent as a bearer and refused, or   *)
(* its access token was presented to the refresh operation and refused      *)
TokenOfOtherTypeRefused ==
  \/ \E s \in DOMAIN req :
       /\ req[s].pc = "done" /\ req[s].res.status = 401
       /\ ValidRefresh(req[s].bearer)
       /\ req[s].bearer = wallet[req[s].session].refresh
  \/ /\ authRes.route = "refresh" /\ authRes.res.status = 401
     /\ ValidAccess(Presented(authRes))
     /\ Presented(authRes) = wallet[authRes.session].access

(* the signature of the bearer does not validate under the access secret *)
Tampered(bearer) == bearer # <<>> /\ bearer[1].sig # JWT_SECRET

(* C13: a token whose signature does not validate under the access-token    *)
(* secret, whatever it claims, ends the request at the token stage with     *)
(* 401 'Token invalido' (TokenInvalid): no claims are attached, no handler  *)
(* runs and the store is as it was.                                         *)
TamperedRejectedStep ==
  \A s \in DOMAIN req :
    ( /\ Stage(s) = "authenticateToken" /\ req'[s] # req[s]
      /\ Tampered(req[s].bearer) )
    => /\ Denied(req'[s], 401, <<"Token invalido">>)
       /\ req'[s].user = <<>> /\ ~HandlerRan(req'[s])
       /\ store' = store

TamperedRejected == [][TamperedRejectedStep]_vars

(* C13: a forged token that claims the MANAGERIAL tier for a principal of   *)
(* another tenant than the sender's was refused with 401                    *)
ForgedClaimsRefused ==
  \E s \in DOMAIN req :
    /\ Denied(req[s], 401, <<"Token invalido">>)
    /\ req[s].ran = <<"authenticateToken">>
    /\ req[s].bearer # <<>> /\ req[s].bearer[1].sig = "forged"
    /\ req[s].bearer[1].accountType = "MANAGERIAL"
    /\ req[s].bearer[1].tenantId # user[req[s].session].tenantId

(* the bearer is an access token the server issued whose expiry has elapsed *)
ExpiredAccess(bearer) ==
  bearer # <<>> /\ JwtVerify(bearer[1], JWT_SECRET, now) = "TokenExpiredError"

(* C14: verification distinguishes its two failure kinds.  A token with a   *)
(* bad signature ends the request with 401 'Token invalido' (TokenInvalid), *)
(* a correctly signed token whose expiry has elapsed with 401 'Token        *)
(* expirado' (TokenExpired).                                                *)
VerifyFailureKindsStep ==
  \A s \in DOMAIN req :
    (Stage(s) = "authenticateToken" /\ req'[s] # req[s]) =>
      /\ Tampered(req[s].bearer) => Denied(req'[s], 401, <<"Token invalido">>)
      /\ ExpiredAccess(req[s].bearer) => Denied(req'[s], 401, <<"Token expirado">>)

VerifyFailureKinds == [][VerifyFailureKindsStep]_vars

(* C14: the access token of a login was sent after its expiry and refused   *)
(* with 401                                                                 *)
ExpiredTokenRefused ==
  \E s \in DOMAIN req :
    /\ req[s].pc = "done" /\ req[s].res.status = 401
    /\ ExpiredAccess(req[s].bearer)
    /\ req[s].bearer = wallet[req[s].session].access

(* the answer of a creation whose audit record is written *)
AnswerWhenAudited(r) ==
  IF r.route \in UploadRoutes
  THEN Ok(200, [message |-> <<"Arquivo enviado com sucesso">>, file |-> r.made[1]])
  ELSE Ok(201, CreatedBody(r))

(* C15: once the business operation of a mutating request has succeeded,    *)
(* the audit write, whether the store takes it or not, leaves the created   *)
(* rows in place and the request is answered with the status and body it    *)
(* has when the audit record is written; a login or registration that has   *)
(* changed the store is answered with success.                              *)
AuditFailureHarmlessStep ==
  /\ \A s \in DOMAIN req :
       (Stage(s) = "audit" /\ req'[s] # req[s]) =>
         /\ req'[s].pc = "done" /\ req'[s].res = AnswerWhenAudited(req[s])
         /\ <<client', project', task', file'>> = <<client, project, task, file>>
  /\ (Idle /\ authRes'.route \in {"login", "register"} /\ user' # user)
       => authRes'.res.status \in {200, 201}

AuditFailureHarmless == [][AuditFailureHarmlessStep]_vars

(* C15: the audit write of a request that had created its row failed *)
AuditWriteFailed ==
  \E s \in DOMAIN req :
    /\ req[s].pc = "done" /\ req[s].wrote # {} /\ "auditLog" \notin req[s].wrote
    /\ \E f \in file : f.id = req[s].made[1].id

(* the calls of the auth and admin routers that change the store *)
StateChangingRoutes ==
  {"login", "register", "admin POST /tenants/:id/users",
   "admin PATCH /tenants/:id", "admin PATCH /users/:id"}

AuditAttempted(r) ==
  Includes(r.ran, "createAuditLog") \/ Includes(r.ran, "auditLog.create")

(* C16: every successful state-changing action is followed by an attempt to *)
(* append an audit record that carries the principal and the tenant: a      *)
(* protected request that has created a row is over only after its audit    *)
(* write was attempted, and a login, a registration or an administrative    *)
(* creation or change that succeeded has handed its record to the recorder. *)
MutationsAudited ==
  /\ \A s \in DOMAIN req :
       (req[s].pc = "done" /\ req[s].wrote \cap {"client", "project", "task", "file"} # {})
         => AuditAttempted(req[s])
  /\ (authRes.route \in StateChangingRoutes /\ authRes.res.status \in {200, 201})
       => /\ authRes.audit # <<>>
          /\ authRes.audit[1].userId \in UserPoolSet
          /\ authRes.audit[1].tenantId \in DOMAIN tenant

(* C16: the administrator changed a tenant and was answered with success *)
TenantPatched ==
  /\ authRes.route = "admin PATCH /tenants/:id" /\ authRes.res.status = 200
  /\ tenant # SeedTenants

----------------------------------------------------------------------------
(* The audit log: a principal of t1 logs in, creates clients and uploads    *)
(* files, principals register and are created in both tenants, and the      *)
(* administrator deletes tenants; t2 has no principal yet                   *)

AuditRoutes == {"POST /clients", "POST /upload/single"}

(* two tenants created with room for one SIMPLE principal each *)
AuditTenants == ("t1" :> TenantRow(1, 0, 0)) @@ ("t2" :> TenantRow(1, 0, 0))

InitAudit ==
  /\ now = 0
  /\ tenant = AuditTenants
  /\ user = Users(("u1" :> <<"t1", "SIMPLE">>))
  /\ client = {} /\ project = {} /\ task = {} /\ file = {}
  /\ auditLog = <<>>
  /\ InitIdle({"u1"}, {1})

NextAudit ==
  \/ \E s \in DOMAIN req : StartRequest(s, AuditRoutes)
  \/ \E s \in DOMAIN req : AuthenticateToken(s)
  \/ \E s \in DOMAIN req : TenantMiddleware(s)
  \/ \E s \in DOMAIN req : CheckAccountAccess(s)
  \/ \E s \in DOMAIN req : CheckAccountLimits(s)
  \/ \E s \in DOMAIN req : CreateClient(s)
  \/ \E s \in DOMAIN req : UploadSingle(s)
  \/ \E s \in DOMAIN req : AuditAndRespond(s)
  \/ \E s \in DOMAIN req : UploadAuditAndRespond(s)
  \/ \E u \in DOMAIN wallet : Login(u)
  \/ Register
  \/ Receive
  \/ AdminCreateUser(Headers({<<ADMIN_KEY>>}, {<<>>}))
  \/ AdminDeleteTenant(Headers(AdminKeys, {<<>>}), Tenants)

SpecAudit == InitAudit /\ [][NextAudit]_vars

(* C17: the audit log is append-only.  No step of the auth, tenant, upload  *)
(* and admin routes, the deletion of a tenant included, changes or removes  *)
(* a record of the log: the log of the next state begins with the log of    *)
(* this one.                                                                *)
AuditAppendOnlyStep ==
  /\ Len(auditLog') >= Len(auditLog)
  /\ \A i \in 1..Len(auditLog) : auditLog'[i] = auditLog[i]

AuditAppendOnly == [][AuditAppendOnlyStep]_vars

(* C17: a tenant was deleted while the log held records *)
TenantDeletedWithLog ==
  /\ authRes.route = "admin DELETE /tenants/:id" /\ authRes.res.status = 200
  /\ \E t \in Tenants : ~tenant[t].exists
  /\ auditLog # <<>>

----------------------------------------------------------------------------
(* Expiry: a principal of t1, of any of the three tiers, logs in and reads  *)
(* the dashboard, the clients and the transactions while time passes and    *)
(* the administrator deactivates its tenant or sets its expiry date         *)

ExpiryRoutes == {"GET /dashboard", "GET /clients", "GET /transactions"}

InitExpiry ==
  /\ \E accountType \in AccountTypeSet :
       InitStore(("u1" :> <<"t1", accountType>>) @@ ("u2" :> <<"t2", "COMPOSITE">>),
                 {}, {})
  /\ InitIdle({"u1"}, {1})

NextExpiry ==
  \/ \E s \in DOMAIN req : StartRequest(s, ExpiryRoutes)
  \/ \E s \in DOMAIN req : AuthenticateToken(s)
  \/ \E s \in DOMAIN req : TenantMiddleware(s)
  \/ \E s \in DOMAIN req : CheckAccountAccess(s)
  \/ \E s \in DOMAIN req : Dashboard(s)
  \/ \E s \in DOMAIN req : ListRows(s)
  \/ \E u \in DOMAIN wallet : Login(u)
  \/ Receive
  \/ AdminPatchTenant(Headers({<<ADMIN_KEY>>}, {<<>>}), {"t1"}, StatePatches)
  \/ Tick

SpecExpiry == InitExpiry /\ [][NextExpiry]_vars

(* the expiry date of the tenant is set and in the past *)
ExpiresInPast(row) == \E d \in row.expiresAt : d < now

(* the tenant a stage of the request validates: that of the principal of    *)
(* the token at the token stage, that of req.user at the tenant stage       *)
ValidatedTenant(s) ==
  IF Stage(s) = "authenticateToken" THEN TenantOf(req[s].bearer)
  ELSE tenant[req[s].user[1].tenantId]

(* a stage that validates the tenant runs for an authenticated request *)
ValidatesTenant(s) ==
  /\ req'[s] # req[s]
  /\ \/ /\ Stage(s) = "authenticateToken"
        /\ ValidAccess(req[s].bearer) /\ PrincipalActive(req[s].bearer)
     \/ Stage(s) = "tenantMiddleware"

DeniedBeforeGate(r, message) ==
  /\ Denied(r, 403, message)
  /\ ~HandlerRan(r) /\ ~Includes(r.ran, "checkAccountAccess")

(* C18 as stated: while the expiry date of a tenant is set and in the past, *)
(* every authenticated request of its principals is denied with 403 'Plano  *)
(* da empresa expirou' (TenantExpired), whatever the tier and the           *)
(* capability, before the capability check; a tenant with no expiry date is *)
(* never answered as expired.                                               *)
ExpiredTenantDeniedAsExpiredStep ==
  \A s \in DOMAIN req :
    ValidatesTenant(s) =>
      /\ ExpiresInPast(ValidatedTenant(s))
           => DeniedBeforeGate(req'[s], <<"Plano da empresa expirou">>)
      /\ ValidatedTenant(s).expiresAt = {}
           => ~Denied(req'[s], 403, <<"Plano da empresa expirou">>)

ExpiredTenantDeniedAsExpired == [][ExpiredTenantDeniedAsExpiredStep]_vars

(* C18 as amended: the request is denied with 403 before the capability     *)
(* check: as TenantExpired when the tenant is flagged active, as            *)
(* TenantInactive ('Empresa inativa') when it is also flagged inactive.     *)
ExpiredTenantDeniedStep ==
  \A s \in DOMAIN req :
    ValidatesTenant(s) =>
      /\ ExpiresInPast(ValidatedTenant(s))
           => DeniedBeforeGate(req'[s], IF ValidatedTenant(s).isActive
                                        THEN <<"Plano da empresa expirou">>
                                        ELSE <<"Empresa inativa">>)
      /\ ValidatedTenant(s).expiresAt = {}
           => ~Denied(req'[s], 403, <<"Plano da empresa expirou">>)

ExpiredTenantDenied == [][ExpiredTenantDeniedStep]_vars

(* C18: a MANAGERIAL principal with a valid token was denied 403 'Plano da  *)
(* empresa expirou' at the token stage of a request for the transactions    *)
ManagerialDeniedExpired ==
  \E s \in DOMAIN req :
    /\ req[s].ran = <<"authenticateToken">>
    /\ Denied(req[s], 403, <<"Plano da empresa expirou">>)
    /\ req[s].route = "GET /transactions"
    /\ ValidAccess(req[s].bearer)
    /\ user[req[s].session].accountType = "MANAGERIAL"

(* the tokens a caller holds *)
HeldTokens == UNION {{wallet[u].access, wallet[u].refresh} : u \in DOMAIN wallet}

(* C21: a logout changes no state of the server: the store is as it was,    *)
(* and every token issued before it is answered by the token stage and by   *)
(* the refresh exactly as it was answered before the logout.                *)
LogoutKeepsTokensStep ==
  (Idle /\ authRes'.route = "logout") =>
     /\ store' = store
     /\ \A b \in HeldTokens :
          /\ authenticateToken(b, user', tenant', now')
               = authenticateToken(b, user, tenant, now)
          /\ refresh(b, user', tenant', now') = refresh(b, user, tenant, now)

VerifiesDeactivated(s) ==
  /\ Stage(s) = "authenticateToken" /\ req'[s] # req[s]
  /\ req[s].bearer # <<>>
  /\ req[s].bearer[1].sig = JWT_SECRET /\ now < req[s].bearer[1].exp
  /\ user[req[s].bearer[1].userId].exists
  /\ ~user[req[s].bearer[1].userId].isActive
  /\ TenantOf(req[s].bearer).isActive
  /\ ~ExpiresInPast(TenantOf(req[s].bearer))

(* C22 as stated: the deactivation of a principal does not invalidate an    *)
(* access token issued to it: until the token expires, a protected request  *)
(* that bears it is authenticated and goes on past the token stage.         *)
DeactivationKeepsTokenStep ==
  \A s \in DOMAIN req :
    VerifiesDeactivated(s)
      => req'[s].pc # "done" /\ req'[s].user # <<>>

DeactivationRefusesTokenStep ==
  \A s \in DOMAIN req :
    VerifiesDeactivated(s)
      => /\ Denied(req'[s], 401, <<"Usuario nao encontrado ou inativo">>)
         /\ req'[s].user = <<>>
         /\ ~HandlerRan(req'[s])

----------------------------------------------------------------------------
(* The quota under concurrency: one principal of a tier with a finite limit *)
(* of clients, its tenant at the limit or one below it, and one request     *)
(* slot (requests served one at a time) or several (requests in flight      *)
(* together, each reading the count and creating as separate steps)         *)

RaceRoutes == {"POST /clients"}

FiniteTiers == {a \in AccountTypeSet : ACCOUNT_LIMITS[a].maxClients # -1}

InitRace ==
  /\ \E a \in FiniteTiers, below \in 0..1 :
       InitStore(("u1" :> <<"t2", a>>),
                 SeedClients(ACCOUNT_LIMITS[a].maxClients - below, "t2"), {})
  /\ \E k \in 1..MaxInFlight : InitIdle({"u1"}, 1..k)

NextRace ==
  \/ \E s \in DOMAIN req : StartRequest(s, RaceRoutes)
  \/ \E s \in DOMAIN req : AuthenticateToken(s)
  \/ \E s \in DOMAIN req : TenantMiddleware(s)
  \/ \E s \in DOMAIN req : CheckAccountAccess(s)
  \/ \E s \in DOMAIN req : CheckAccountLimits(s)
  \/ \E s \in DOMAIN req : CreateClient(s)
  \/ \E s \in DOMAIN req : AuditAndRespond(s)
  \/ \E u \in DOMAIN wallet : Login(u)
  \/ Receive

SpecRace == InitRace /\ [][NextRace]_vars

(* the limit of clients of the tier of the principal that creates them *)
ClientLimit == ACCOUNT_LIMITS[user["u1"].accountType].maxClients

(* C23: the quota is a soft limit with bounded overshoot.  With requests    *)
(* served one at a time (one slot) the number of clients of the tenant      *)
(* never exceeds the limit L of the tier; with k requests in flight         *)
(* together it never exceeds L by more than k - 1.                          *)
QuotaOvershootBounded ==
  /\ Cardinality(DOMAIN req) = 1 => CountWhere(client, "t2") <= ClientLimit
  /\ CountWhere(client, "t2") <= ClientLimit + Cardinality(DOMAIN req) - 1

(* C23: two requests in flight together both passed the check one below the *)
(* limit and both created: the tenant has one client more than the limit    *)
QuotaOvershot ==
  /\ Cardinality(DOMAIN req) = 2
  /\ CountWhere(client, "t2") = ClientLimit + 1
  /\ \A s \in DOMAIN req :
       Includes(req[s].ran, "checkAccountLimits") /\ "client" \in req[s].wrote

(* C25: a deactivation of a tenant takes effect at the next validation of   *)
(* the tenant.  Every stage that validates the tenant after the             *)
(* deactivation denies the request with 403 'Empresa inativa' and its       *)
(* handler does not run; a handler whose request was validated before the   *)
(* deactivation validates nothing: it runs after it and commits its row     *)
(* under the deactivated tenant.                                            *)
DeactivationAtNextValidationStep ==
  \A s \in DOMAIN req :
    /\ (ValidatesTenant(s) /\ ~ValidatedTenant(s).isActive)
         => Denied(req'[s], 403, <<"Empresa inativa">>) /\ ~HandlerRan(req'[s])
    /\ ( /\ Stage(s) = "handler" /\ req[s].route = "POST /clients"
         /\ req'[s] # req[s]
         /\ ~tenant[req[s].user[1].tenantId].isActive )
         => /\ Cardinality(client') = Cardinality(client) + 1
            /\ \A c \in client' \ client : c.tenantId = req[s].user[1].tenantId

DeactivationAtNextValidation == [][DeactivationAtNextValidationStep]_vars

(* C25: a request to create a client has passed the validation of its       *)
(* tenant, the tenant has been deactivated since, and the handler is the    *)
(* next step of the request                                                 *)
DeactivatedBeforeHandler ==
  \E s \in DOMAIN req :
    /\ req[s].pc = "run" /\ Stage(s) = "handler" /\ req[s].route = "POST /clients"
    /\ Includes(req[s].ran, "tenantMiddleware")
    /\ ~tenant[req[s].user[1].tenantId].isActive
    /\ authRes.route = "admin PATCH /tenants/:id" /\ authRes.res.status = 200

(* the response of request s is sent in a step in which no audit write of   *)
(* the request has completed or failed                                      *)
RespondsUnaudited(s) ==
  /\ Next
  /\ req'[s].pc = "done" /\ req'[s].res.status = 201
  /\ ~Includes(req'[s].ran, "createAuditLog")
  /\ auditLog' = auditLog

(* C26: the audit write is fire-and-forget with respect to the response.    *)
(* While the audit write of a mutating request is outstanding, the response *)
(* can be sent: sending it is not ordered after the completion or the       *)
(* failure of the write.                                                    *)
ResponseNotAfterAudit ==
  \A s \in DOMAIN req :
    (req[s].pc = "audit" /\ req[s].route = "POST /clients")
      => ENABLED RespondsUnaudited(s)

(* C26: the handler of POST /clients has inserted its row and waits for the *)
(* audit write; no response has been sent                                   *)
ResponseAwaitsAudit ==
  \E s \in DOMAIN req :
    /\ req[s].pc = "audit" /\ req[s].route = "POST /clients"
    /\ "client" \in req[s].wrote /\ req[s].made[1] \in client
    /\ req[s].res = NoRes

----------------------------------------------------------------------------
(* Writes of two tenants: a principal of each creates projects and updates  *)
(* and deletes clients, naming in its requests the ids of any row of the    *)
(* store                                                                    *)

WriteRoutes == {"POST /projects"} \cup ChangeRoutes

InitWrites ==
  /\ InitStore(("u1" :> <<"t1", "SIMPLE">>) @@ ("u2" :> <<"t2", "COMPOSITE">>),
               {SeedClient("s1", "t1")}, {})
  /\ InitIdle({"u1", "u2"}, {1})

NextWrites ==
  \/ \E s \in DOMAIN req : StartRequest(s, WriteRoutes)
  \/ \E s \in DOMAIN req : AuthenticateToken(s)
  \/ \E s \in DOMAIN req : TenantMiddleware(s)
  \/ \E s \in DOMAIN req : CheckAccountAccess(s)
  \/ \E s \in DOMAIN req : CheckAccountLimits(s)
  \/ \E s \in DOMAIN req : CreateProject(s)
  \/ \E s \in DOMAIN req : UpdateClient(s)
  \/ \E s \in DOMAIN req : DeleteClient(s)
  \/ \E s \in DOMAIN req : AuditAndRespond(s)
  \/ \E s \in DOMAIN req : AuditChangeAndRespond(s)
  \/ \E u \in DOMAIN wallet : Login(u)
  \/ Receive

SpecWrites == InitWrites /\ [][NextWrites]_vars

(* the rows of a table that belong to other tenants than tenantId *)
RowsOfOthers(rows, tenantId) == {r \in rows : r.tenantId # tenantId}

(* C28: write isolation.  The handler of a create, an update or a delete    *)
(* stores, changes or removes only records whose tenant is the tenant of    *)
(* the authenticated principal, whatever ids the request names: the         *)
(* records of every other tenant are after the step what they were before.  *)
WriteIsolationStep ==
  \A s \in DOMAIN req :
    (Stage(s) = "handler" /\ req'[s] # req[s] /\ req[s].route \in WriteRoutes) =>
      LET t == req[s].user[1].tenantId IN
      /\ RowsOfOthers(client', t) = RowsOfOthers(client, t)
      /\ RowsOfOthers(project', t) = RowsOfOthers(project, t)
      /\ RowsOfOthers(task', t) = RowsOfOthers(task, t)

WriteIsolation == [][WriteIsolationStep]_vars

(* C28: a principal deleted a client of its own tenant, and a project that  *)
(* a principal of another tenant had created is no longer in the store      *)
ProjectOfOtherTenantGone ==
  \E s \in DOMAIN req :
    /\ req[s].route = "DELETE /clients/:id" /\ "client" \in req[s].wrote
    /\ req[s].made[1].tenantId = req[s].user[1].tenantId
    /\ \E i \in 1..Len(auditLog) :
         /\ auditLog[i].action = "CREATE" /\ auditLog[i].resourceType = "PROJECT"
         /\ auditLog[i].tenantId # req[s].user[1].tenantId
         /\ ~HasId(project, auditLog[i].resourceId)

(* the principal of a login exists and is active, and its tenant is active  *)
(* and not expired                                                          *)
LoginLive(u) ==
  /\ user[u].exists /\ user[u].isActive
  /\ tenant[user[u].tenantId].isActive
  /\ ~ExpiresInPast(tenant[user[u].tenantId])

(* C29: a login issues the pair of tokens, sets the last login and hands a  *)
(* LOGIN record to the recorder only if the principal exists and is active, *)
(* its tenant is active and not expired and the password matches; in every  *)
(* other case no token is issued and nothing is written; a wrong password   *)
(* is answered 401 whatever the state of the tenant.                        *)
LoginOnlyIfLiveStep ==
  (Idle /\ authRes'.route = "login") =>
     LET u == authRes'.session
         passwordOk == authRes'.input[1].passwordOk
         body == authRes'.res.body
     IN
     /\ authRes'.res.status = 200 => LoginLive(u) /\ passwordOk
     /\ ~(LoginLive(u) /\ passwordOk)
          => /\ "token" \notin DOMAIN body /\ "refreshToken" \notin DOMAIN body
             /\ authRes'.audit = <<>>
             /\ store' = store
     /\ ~passwordOk => authRes'.res.status = 401

LoginOnlyIfLive == [][LoginOnlyIfLiveStep]_vars

(* C29: a login with a wrong password for an active principal of a tenant   *)
(* that is inactive or expired was answered 403                             *)
WrongPasswordAnswered403 ==
  /\ authRes.route = "login" /\ ~authRes.input[1].passwordOk
  /\ authRes.res.status = 403
  /\ user[authRes.session].isActive
  /\ ~LoginLive(authRes.session)

----------------------------------------------------------------------------
(* The admin routes: calls with and without the administrator's key, with   *)
(* no bearer, a forged one or a token of a principal that has logged in     *)

AllBearers == UNION {Bearers(u) : u \in DOMAIN wallet}

InitAdmin ==
  /\ now = 0
  /\ tenant = AuditTenants
  /\ user = Users(("u1" :> <<"t1", "SIMPLE">>))
  /\ client = {} /\ project = {} /\ task = {} /\ file = {}
  /\ auditLog = <<>>
  /\ InitIdle({"u1"}, {1})

NextAdmin ==
  \/ \E u \in DOMAIN wallet : Login(u)
  \/ Receive
  \/ AdminCreateUser(Headers(AdminKeys, AllBearers))
  \/ AdminPatchTenant(Headers(AdminKeys, AllBearers), Tenants, StatePatches)
  \/ AdminPatchUser(Headers(AdminKeys, AllBearers), DOMAIN wallet)
  \/ AdminDeleteTenant(Headers(AdminKeys, AllBearers), Tenants)

SpecAdmin == InitAdmin /\ [][NextAdmin]_vars

AdminRoutes ==
  {"admin POST /tenants/:id/users", "admin PATCH /tenants/:id",
   "admin PATCH /users/:id", "admin DELETE /tenants/:id"}

AdminDenial ==
  [status |-> 403,
   body |-> [status |-> "error", code |-> "AppError",
             message |-> <<"Acesso administrativo nao autorizado">>]]

(* C19: a call of a gated admin route passes if and only if its x-admin-key *)
(* header equals the configured key, whatever bearer comes with it: with    *)
(* another key or none it is answered 403 and the store is as it was; with  *)
(* the key it is not refused by the gate, and a change of a tenant or a     *)
(* principal that exists succeeds, also with no bearer.                     *)
AdminGateStep ==
  (Idle /\ authRes'.route \in AdminRoutes) =>
     LET h == authRes'.input[1] IN
     IF h.adminKey = <<ADMIN_KEY>>
     THEN /\ authRes'.res # AdminDenial
          /\ ( /\ authRes'.route \in {"admin PATCH /tenants/:id", "admin PATCH /users/:id"}
               /\ "tenantId" \in DOMAIN h => tenant[h.tenantId].exists
               /\ "userId" \in DOMAIN h => user[h.userId].exists )
             => authRes'.res.status = 200
     ELSE authRes'.res = AdminDenial /\ store' = store

AdminGate == [][AdminGateStep]_vars

(* C19: a call carrying the administrator's key and no bearer changed a     *)
(* tenant                                                                  *)
AdminSucceededWithoutBearer ==
  /\ authRes.route = "admin PATCH /tenants/:id" /\ authRes.res.status = 200
  /\ authRes.input[1].adminKey = <<ADMIN_KEY>>
  /\ authRes.input[1].authorization = <<>>
  /\ tenant # AuditTenants

TokenDenials == {<<"Token invalido">>, <<"Token expirado">>}

TenantDenials ==
  {<<"Empresa nao encontrada">>, <<"Empresa inativa">>, <<"Plano da empresa expirou">>,
   <<"Empresa inativa. Entre em contato com o suporte.">>,
   <<"Plano da empresa expirou. Renove sua assinatura.">>}

StatusOfDenial(res) ==
  /\ ("message" \in DOMAIN res.body /\ res.body.message \in TokenDenials)
       => res.status = 401
  /\ ("message" \in DOMAIN res.body /\ res.body.message \in TenantDenials)
       => res.status = 403
  /\ ("code" \in DOMAIN res.body
        /\ res.body.code \in {"ACCOUNT_ACCESS_DENIED", "ACCOUNT_LIMIT_EXCEEDED"})
       => res.status = 403

(* C20: every denial is answered with the status of its kind: TokenInvalid  *)
(* and TokenExpired with 401; TenantNotFound ('Empresa nao encontrada'),    *)
(* TenantInactive and TenantExpired with 403; CapabilityDenied              *)
(* (ACCOUNT_ACCESS_DENIED) and QuotaExceeded (ACCOUNT_LIMIT_EXCEEDED) with  *)
(* 403. A request that names a tenant with no record is answered 403.       *)
DenialStatuses ==
  /\ \A s \in DOMAIN req : StatusOfDenial(req[s].res)
  /\ StatusOfDenial(authRes.res)

(* C20: a request naming a tenant whose record is gone (deleted by the      *)
(* administrator) was answered 'Empresa nao encontrada'                     *)
TenantNotFoundAnswered ==
  /\ "message" \in DOMAIN authRes.res.body
  /\ authRes.res.body.message = <<"Empresa nao encontrada">>
  /\ \E t \in Tenants : ~tenant[t].exists

----------------------------------------------------------------------------
(* The Capability Gate on its own: checkAccountAccess(requiredModule)       *)
(* called with every req.user of the three tiers and every module name of   *)
(* the table, and one the table does not have                               *)

RECURSIVE Elements(_)
Elements(seq) == IF seq = <<>> THEN {} ELSE {seq[1]} \cup Elements(Tail(seq))

ModuleNames ==
  UNION {Elements(ACCOUNT_MODULES[a]) : a \in AccountTypeSet} \cup {"reports"}

ReqUsers ==
  {<<[userId |-> u, tenantId |-> t, accountType |-> a]>> :
     u \in {"u1", "u2"}, t \in Tenants, a \in AccountTypeSet}

InitGate ==
  /\ InitStore(("u1" :> <<"t1", "SIMPLE">>) @@ ("u2" :> <<"t2", "COMPOSITE">>), {}, {})
  /\ wallet = [u \in {"u1"} |-> EmptyWallet]
  /\ req = [s \in {1} |-> IdleReq]
  /\ authRes = NoAuthRes
  /\ \E reqUser \in ReqUsers, requiredModule \in ModuleNames :
       probe = [pc |-> "call", reqUser |-> reqUser, requiredModule |-> requiredModule,
                out |-> Next_]

CallCheckAccountAccess ==
  /\ probe.pc = "call"
  /\ probe' = [probe EXCEPT !.pc = "returned",
                            !.out = checkAccountAccess(probe.reqUser, probe.requiredModule)]
  /\ UNCHANGED <<now, store, wallet, req, authRes>>

SpecGate == InitGate /\ [][CallCheckAccountAccess]_vars

(* C6: the gate allows a tier a capability if and only if the entry of     *)
(* exactly that tier in the table lists it.                                 *)
GateMatchesTable ==
  probe.pc = "returned" =>
    (probe.out.next <=>
       Includes(ACCOUNT_MODULES[probe.reqUser[1].accountType], probe.requiredModule))

(* C6: the gate denied MANAGERIAL a capability that lower tiers are granted *)
ManagerialDeniedBasicSettings ==
  /\ probe.pc = "returned" /\ ~probe.out.next
  /\ probe.reqUser[1].accountType = "MANAGERIAL"
  /\ probe.requiredModule = "basic_settings"

(* the tiers from the lowest up to the given one *)
TiersUpTo(accountType) ==
  {a \in AccountTypeSet : accountLevels[a] <= accountLevels[accountType]}

(* C27: in the grant table every higher tier is granted what every lower    *)
(* tier is granted, and MANAGERIAL everything the table lists: the gate     *)
(* lets a tier through for every capability that the entry of that tier or  *)
(* of a lower tier lists.                                                   *)
HigherTiersAreSupersets ==
  probe.pc = "returned" =>
    ( (\E a \in TiersUpTo(probe.reqUser[1].accountType) :
         Includes(ACCOUNT_MODULES[a], probe.requiredModule))
      => probe.out.next )

(* C27: the gate was asked, for the highest tier, a capability that the     *)
(* entry of a lower tier lists, and denied it                               *)
HighestTierLacksLowerGrant ==
  /\ probe.pc = "returned" /\ ~probe.out.next
  /\ \A a \in AccountTypeSet :
       accountLevels[a] <= accountLevels[probe.reqUser[1].accountType]
  /\ \E a \in AccountTypeSet :
       /\ accountLevels[a] < accountLevels[probe.reqUser[1].accountType]
       /\ Includes(ACCOUNT_MODULES[a], probe.requiredModule)

GrantingTiers(requiredModule) ==
  LET Grants(a) == Includes(ACCOUNT_MODULES[a], requiredModule) IN
  SelectSeq(AccountTypes, Grants)

(* C7: a denial of the gate is a 403 that carries the tier of the           *)
(* principal, the capability asked for and the tiers whose entry grants     *)
(* it, in the order of the table; SIMPLE asking for cash_flow is given      *)
(* COMPOSITE, MANAGERIAL.                                                   *)
GateDenialCarriesDetail ==
  (probe.pc = "returned" /\ ~probe.out.next) =>
    LET body == probe.out.res.body IN
    /\ probe.out.res.status = 403
    /\ body.currentAccount = probe.reqUser[1].accountType
    /\ body.requiredModule = probe.requiredModule
    /\ body.suggestedAccounts = GrantingTiers(probe.requiredModule)
    /\ (probe.reqUser[1].accountType = "SIMPLE" /\ probe.requiredModule = "cash_flow")
         => body.suggestedAccounts = <<"COMPOSITE", "MANAGERIAL">>

(* C7: SIMPLE was denied cash_flow *)
SimpleDeniedCashFlow ==
  /\ probe.pc = "returned" /\ ~probe.out.next
  /\ probe.reqUser[1].accountType = "SIMPLE" /\ probe.requiredModule = "cash_flow"

----------------------------------------------------------------------------
(* The quota check on its own: checkAccountLimits(resourceType) called for  *)
(* a principal of each tier with the tables of its tenant filled up to,     *)
(* at and past the limits of the tiers                                      *)

Around(n) == {n - 1, n, n + 1}

Counts(resourceType) ==
  CASE resourceType = "clients" ->
         {0} \cup Around(ACCOUNT_LIMITS.SIMPLE.maxClients)
             \cup Around(ACCOUNT_LIMITS.COMPOSITE.maxClients)
    [] resourceType = "projects" ->
         {0} \cup Around(ACCOUNT_LIMITS.SIMPLE.maxProjects)
             \cup Around(ACCOUNT_LIMITS.COMPOSITE.maxProjects)
    [] resourceType = "storage" ->
         {0} \cup Around(ACCOUNT_LIMITS.SIMPLE.maxStorage)
             \cup Around(ACCOUNT_LIMITS.COMPOSITE.maxStorage)
             \cup Around(ACCOUNT_LIMITS.MANAGERIAL.maxStorage)

OtherTenant(t) == CHOOSE o \in Tenants : o # t

(* n rows of tenantId, and one of the other tenant *)
RowsOf(n, tenantId) ==
  {[id |-> ToString(k), tenantId |-> tenantId] : k \in 1..n}
    \cup {[id |-> "other", tenantId |-> OtherTenant(tenantId)]}

(* files of tenantId of n MiB in all, and one of the other tenant *)
FilesOf(n, tenantId) ==
  {[id |-> "f1", tenantId |-> tenantId, size |-> n - (n \div 2)],
   [id |-> "f2", tenantId |-> tenantId, size |-> n \div 2],
   [id |-> "other", tenantId |-> OtherTenant(tenantId), size |-> 1]}

InitQuota ==
  /\ now = 0 /\ tenant = SeedTenants
  /\ user = Users(("u1" :> <<"t1", "SIMPLE">>) @@ ("u2" :> <<"t2", "COMPOSITE">>))
  /\ task = {} /\ auditLog = <<>>
  /\ wallet = [u \in {"u1"} |-> EmptyWallet]
  /\ req = [s \in {1} |-> IdleReq]
  /\ authRes = NoAuthRes
  /\ \E reqUser \in ReqUsers, resourceType \in ResourceTypes :
       \E n \in Counts(resourceType) :
         /\ probe = [pc |-> "call", reqUser |-> reqUser, resourceType |-> resourceType,
                     count |-> n, out |-> Next_]
         /\ client = IF resourceType = "clients"
                     THEN RowsOf(n, reqUser[1].tenantId) ELSE {}
         /\ project = IF resourceType = "projects"
                      THEN RowsOf(n, reqUser[1].tenantId) ELSE {}
         /\ file = IF resourceType = "storage"
                   THEN FilesOf(n, reqUser[1].tenantId) ELSE {}

CallCheckAccountLimits ==
  /\ probe.pc = "call"
  /\ probe' = [probe EXCEPT !.pc = "returned",
                            !.out = checkAccountLimits(probe.reqUser, probe.resourceType,
                                                       client, project, file)]
  /\ UNCHANGED <<now, store, wallet, req, authRes>>

SpecQuota == InitQuota /\ [][CallCheckAccountLimits]_vars

LimitOf(accountType, resourceType) ==
  CASE resourceType = "clients"  -> ACCOUNT_LIMITS[accountType].maxClients
    [] resourceType = "projects" -> ACCOUNT_LIMITS[accountType].maxProjects
    [] resourceType = "storage"  -> ACCOUNT_LIMITS[accountType].maxStorage

(* C8: the quota check allows whatever the count when the limit of the tier *)
(* is -1; with a finite limit it allows while count < limit and denies with *)
(* 403, the count and the limit once count >= limit.                        *)
QuotaDecision ==
  probe.pc = "returned" =>
    LET limit == LimitOf(probe.reqUser[1].accountType, probe.resourceType)
        out == probe.out
    IN
    IF limit = -1 \/ probe.count < limit
    THEN out.next
    ELSE /\ ~out.next /\ out.res.status = 403
         /\ out.res.body.currentCount = probe.count
         /\ out.res.body.maxAllowed = limit

(* C8: a tenant that has exactly as many clients as its tier allows was     *)
(* denied one more                                                          *)
DeniedAtLimit ==
  /\ probe.pc = "returned" /\ ~probe.out.next
  /\ probe.resourceType = "clients"
  /\ probe.count = LimitOf(probe.reqUser[1].accountType, "clients")

----------------------------------------------------------------------------
(* The two middlewares of planAccess called with a req.user whose           *)
(* accountType is no key of their tables                                    *)

UnrecognizedTiers == {"ENTERPRISE", "simple", ""} \cup ObjectPrototypeNames

UnrecognizedReqUsers ==
  {<<[userId |-> u, tenantId |-> t, accountType |-> a]>> :
     u \in {"u1", "u2"}, t \in Tenants, a \in UnrecognizedTiers}

InitUnrecognized ==
  /\ now = 0 /\ tenant = SeedTenants
  /\ user = Users(("u1" :> <<"t1", "SIMPLE">>) @@ ("u2" :> <<"t2", "COMPOSITE">>))
  /\ task = {} /\ auditLog = <<>>
  /\ wallet = [u \in {"u1"} |-> EmptyWallet]
  /\ req = [s \in {1} |-> IdleReq]
  /\ authRes = NoAuthRes
  /\ \E reqUser \in UnrecognizedReqUsers :
       \/ /\ \E requiredModule \in ModuleNames :
               probe = [pc |-> "call", reqUser |-> reqUser,
                        requiredModule |-> requiredModule, out |-> Next_]
          /\ client = {} /\ project = {} /\ file = {}
       \/ \E resourceType \in ResourceTypes :
            \E n \in Counts(resourceType) :
              /\ probe = [pc |-> "call", reqUser |-> reqUser,
                          resourceType |-> resourceType, count |-> n, out |-> Next_]
              /\ client = IF resourceType = "clients"
                          THEN RowsOf(n, reqUser[1].tenantId) ELSE {}
              /\ project = IF resourceType = "projects"
                           THEN RowsOf(n, reqUser[1].tenantId) ELSE {}
              /\ file = IF resourceType = "storage"
                        THEN FilesOf(n, reqUser[1].tenantId) ELSE {}

NextUnrecognized ==
  \/ "requiredModule" \in DOMAIN probe /\ CallCheckAccountAccess
  \/ "resourceType" \in DOMAIN probe /\ CallCheckAccountLimits

SpecUnrecognized == InitUnrecognized /\ [][NextUnrecognized]_vars

----------------------------------------------------------------------------
(* Accounts: principals are created by self-registration and by the         *)
(* administrator in the tenants of the seed, whose first tenant has the     *)
(* two SIMPLE principals it allows; the administrator changes a capacity    *)

CapacityPatches ==
  {[NoPatch EXCEPT !.maxSimpleAccounts = <<n>>] : n \in {-1, 1}}
    \cup {[NoPatch EXCEPT !.maxCompositeAccounts = <<1>>]}

InitAccounts ==
  /\ InitStore(("u1" :> <<"t1", "SIMPLE">>) @@ ("u2" :> <<"t1", "SIMPLE">>)
                 @@ ("u3" :> <<"t2", "COMPOSITE">>) @@ ("u4" :> <<"t2", "SIMPLE">>),
               {}, {})
  /\ InitIdle({"u1"}, {1})

NextAccounts ==
  \/ Register
  \/ AdminCreateUser(Headers(AdminKeys, {<<>>}))
  \/ AdminPatchTenant(Headers({<<ADMIN_KEY>>}, {<<>>}), {"t1"}, CapacityPatches \cup StatePatches)
  \/ Receive

SpecAccounts == InitAccounts /\ [][NextAccounts]_vars

CreationRoutes == {"register", "admin POST /tenants/:id/users"}

(* the creation asks for a tier of which the tenant has as many principals  *)
(* as it allows or more, and nothing else stands against it: the tenant is  *)
(* active, the email is free, the administrator's key is right              *)
AtCapacity(route, input) ==
  /\ tenant[input.tenantId].exists
  /\ route = "register" => tenant[input.tenantId].isActive
  /\ route # "register" => input.adminKey = <<ADMIN_KEY>>
  /\ ~EmailInUse(user, input.email)
  /\ MaxAccounts(tenant[input.tenantId], input.accountType) # -1
  /\ CountAccounts(user, input.tenantId, input.accountType)
       >= MaxAccounts(tenant[input.tenantId], input.accountType)

(* C9: a creation of a principal of a tier at capacity is denied with 403   *)
(* and the current count and the maximum allowed as values of the           *)
(* response, and no principal is created.                                   *)
CapacityDenialStep ==
  (Idle /\ authRes'.route \in CreationRoutes
        /\ AtCapacity(authRes'.route, authRes'.input[1])) =>
     LET input == authRes'.input[1]
         body == authRes'.res.body
     IN
     /\ authRes'.res.status = 403
     /\ user' = user
     /\ "currentCount" \in DOMAIN body /\ "maxAllowed" \in DOMAIN body
     /\ body.currentCount = CountAccounts(user, input.tenantId, input.accountType)
     /\ body.maxAllowed = MaxAccounts(tenant[input.tenantId], input.accountType)

CapacityDenialCarriesCounts == [][CapacityDenialStep]_vars

(* C24: the capacity of a tier is enforced when a principal is created.  A  *)
(* step that leaves the capacity of a tier of a tenant finite and does not  *)
(* lower it keeps the number of principals of the tier within the           *)
(* capacity if it was within it: by induction, after any sequence of        *)
(* registrations and administrative creations the principals of a tier      *)
(* whose capacity is not -1 and was never lowered are at most the capacity. *)
CapacityKeptStep ==
  \A t \in Tenants, a \in AccountTypeSet :
    LET before == MaxAccounts(tenant[t], a)
        after == MaxAccounts(tenant'[t], a)
    IN
    ( /\ before # -1 /\ after # -1 /\ after >= before
      /\ CountAccounts(user, t, a) <= before )
    => CountAccounts(user', t, a) <= after

CapacityKept == [][CapacityKeptStep]_vars

(* C24: a principal was created and filled the capacity of its tier, which  *)
(* no update has changed                                                    *)
TierFilled ==
  /\ authRes.route \in CreationRoutes /\ authRes.res.status = 201
  /\ LET t == authRes.input[1].tenantId
         a == authRes.input[1].accountType
     IN
     /\ MaxAccounts(tenant[t], a) = MaxAccounts(SeedTenants[t], a)
     /\ CountAccounts(user, t, a) = MaxAccounts(tenant[t], a)

(* C9: a third SIMPLE principal was refused to the tenant that allows two *)
ThirdSimpleRefused ==
  /\ authRes.route \in CreationRoutes /\ authRes.res.status = 403
  /\ authRes.input[1].tenantId = "t1" /\ authRes.input[1].accountType = "SIMPLE"
  /\ tenant["t1"].maxSimpleAccounts = 2
  /\ CountAccounts(user, "t1", "SIMPLE") = 2
  /\ authRes.res.body.message[1] = "Limite de contas "

====
